---- MODULE Spec2Model ----
(***************************************************************************)
(* A model of the Tyco parser (parser.ts): TycoParser.parseContent /       *)
(* parseFile drive a TycoLexer over the lines of the input (and of the     *)
(* files it #includes) to populate a TycoContext, then run the render      *)
(* pipeline of the context and serialize it with toObject.                 *)
(*                                                                         *)
(* Text is modelled as sequences of one-character strings.  The lexer is   *)
(* modelled from the point where a line has been matched against the       *)
(* lexer's regular expressions: an input line is a record naming the       *)
(* construct the line matches and carrying its captured groups; values     *)
(* are the trees loadTycoAttr builds.  Every object the parser allocates   *)
(* (TycoValue, TycoArray, TycoInstance, TycoReference) is a record of the  *)
(* heap `nodes`, addressed by its index.                                   *)
(***************************************************************************)
EXTENDS Integers, Sequences, FiniteSets, TLC

\* ------------------------------------------------------------------------
\* Bounds of the model
\* ------------------------------------------------------------------------

\* longest sequence of global declarations in an input
MaxGlobals == 3

\* most instance rows of one struct type in an input
MaxRows == 2

\* deepest nesting of lexers (call depth of TycoLexer.fromPath) the runtime
\* allows before it stops the parse with a RangeError
MaxStack == 4

\* parse calls made on one TycoParser object
MaxParses == 2

\* most #include lines in the root file of an input
MaxIncludes == 2

\* most binary digits of an integer that the model holds as a number; a
\* longer one is held as its binary digits
IntBits == 30

\* longest text of a source fragment
MaxText == 3

\* most schema rows of a struct block in the inputs that vary the schema
MaxSchema == 2

\* ------------------------------------------------------------------------
\* Characters and strings
\* ------------------------------------------------------------------------

DQ == "\""

SQ == "'"

BS == "\\"

EOL == "\n"

\* the character U+0000
NUL == "NUL"

DigitChars == <<"0", "1", "2", "3", "4", "5", "6", "7", "8", "9",
                "a", "b", "c", "d", "e", "f">>

UpperHex == <<"0", "1", "2", "3", "4", "5", "6", "7", "8", "9",
              "A", "B", "C", "D", "E", "F">>

Letters == {"a", "b", "c", "d", "e", "f", "g", "h", "i", "j", "k", "l", "m",
            "n", "o", "p", "q", "r", "s", "t", "u", "v", "w", "x", "y", "z",
            "A", "B", "C", "D", "E", "F", "G", "H", "I", "J", "K", "L", "M",
            "N", "O", "P", "Q", "R", "S", "T", "U", "V", "W", "X", "Y", "Z"}

\* \w of the regular expressions
WordChars == Letters \cup {DigitChars[i] : i \in 1..10} \cup {"_"}

\* \s of the regular expressions
SpaceChars == {" ", "\t", "\n", "\r", "\f"}

\* value of character c as a digit (0..15), or 99 when it is no digit
DigitValue(c) ==
    IF \E i \in 1..16 : DigitChars[i] = c
    THEN (CHOOSE i \in 1..16 : DigitChars[i] = c) - 1
    ELSE IF \E i \in 1..16 : UpperHex[i] = c
         THEN (CHOOSE i \in 1..16 : UpperHex[i] = c) - 1
         ELSE 99

\* const x = v; ... : F(x) with v evaluated once
Let(x, F(_)) ==
    F(x)

StartsWith(s, p) ==
    /\ Len(s) >= Len(p)
    /\ SubSeq(s, 1, Len(p)) = p

Clamp(v, lo, hi) ==
    IF v < lo THEN lo ELSE IF v > hi THEN hi ELSE v

\* String.prototype.substring(a, b): 0-based, arguments clamped and swapped
JsSubstring(s, a, b) ==
    LET ca == Clamp(a, 0, Len(s))
        cb == Clamp(b, 0, Len(s))
        lo == IF ca < cb THEN ca ELSE cb
        hi == IF ca < cb THEN cb ELSE ca
    IN  SubSeq(s, lo + 1, hi)

\* s.substring(a): from 0-based offset a to the end
JsFrom(s, a) ==
    JsSubstring(s, a, Len(s))

\* decimal digits of a natural number
RECURSIVE NatToChars(_)
NatToChars(n) ==
    IF n < 10 THEN <<DigitChars[n + 1]>>
    ELSE NatToChars(n \div 10) \o <<DigitChars[(n % 10) + 1]>>

\* String(n) of an integer
IntToChars(n) ==
    IF n < 0 THEN <<"-">> \o NatToChars(0 - n) ELSE NatToChars(n)

\* length of the longest prefix of s from index i made of digits of `base`
RECURSIVE DigitRun(_, _, _)
DigitRun(s, i, base) ==
    IF i <= Len(s) /\ DigitValue(s[i]) < base
    THEN 1 + DigitRun(s, i + 1, base)
    ELSE 0

RECURSIVE DigitsValue(_, _, _)
DigitsValue(s, n, base) ==
    IF n = 0 THEN 0
    ELSE DigitsValue(s, n - 1, base) * base + DigitValue(s[n])

RECURSIVE SkipSpaces(_)
SkipSpaces(s) ==
    IF s # <<>> /\ Head(s) \in SpaceChars THEN SkipSpaces(Tail(s)) ELSE s

\* the binary digits of a digit of base 2, 8 or 16
BitsOf(d, base) ==
    LET w == CASE base = 2 -> 1 [] base = 8 -> 3 [] base = 16 -> 4
    IN  [i \in 1..w |-> IF (d \div (2 ^ (w - i))) % 2 = 1 THEN "1" ELSE "0"]

\* the binary digits of the integer that the first n digits of s are in
\* base 2, 8 or 16, without leading zeros
RECURSIVE DigitBits(_, _, _)
DigitBits(s, n, base) ==
    IF n = 0 THEN <<>>
    ELSE Let(DigitBits(s, n - 1, base) \o BitsOf(DigitValue(s[n]), base), LAMBDA b :
           IF \E i \in 1..Len(b) : b[i] = "1"
           THEN SubSeq(b, CHOOSE i \in 1..Len(b) :
                            b[i] = "1" /\ \A j \in 1..(i - 1) : b[j] = "0", Len(b))
           ELSE <<>>)

\* binary digits plus one
RECURSIVE Increment(_)
Increment(b) ==
    IF b = <<>> THEN <<"1">>
    ELSE IF b[Len(b)] = "0" THEN [b EXCEPT ![Len(b)] = "1"]
    ELSE Increment(SubSeq(b, 1, Len(b) - 1)) \o <<"0">>

\* the significant binary digits of a Number of the runtime (a double)
MantissaBits == 53

\* the Number for an integer given by its binary digits: the nearest double,
\* a tie going to the even mantissa
NumberOf(b) ==
    IF Len(b) <= MantissaBits THEN b
    ELSE LET top == SubSeq(b, 1, MantissaBits)
             rest == SubSeq(b, MantissaBits + 1, Len(b))
             up == /\ rest[1] = "1"
                   /\ \/ top[MantissaBits] = "1"
                      \/ \E i \in 2..Len(rest) : rest[i] = "1"
         IN  (IF up THEN Increment(top) ELSE top) \o [i \in 1..Len(rest) |-> "0"]

\* parseInt(s, base) of the runtime: leading white space, an optional sign,
\* for base 16 an optional 0x, then the longest run of digits of the base;
\* no digit at all gives NaN.  The result is [nan, n, bits]: the Number is
\* n, or for an integer of more than IntBits binary digits (base 2, 8 or
\* 16) the sign n and the binary digits bits of its magnitude.
ParseInt(s, base) ==
    Let(SkipSpaces(s), LAMBDA t :
    Let(IF t # <<>> /\ Head(t) \in {"-", "+"} THEN Tail(t) ELSE t, LAMBDA u :
    Let(IF base = 16 /\ Len(u) >= 2 /\ u[1] = "0" /\ u[2] \in {"x", "X"}
        THEN JsFrom(u, 2) ELSE u, LAMBDA v :
    Let(DigitRun(v, 1, base), LAMBDA k :
    Let(IF t # <<>> /\ Head(t) = "-" THEN 0 - 1 ELSE 1, LAMBDA sgn :
      IF k = 0 THEN [nan |-> TRUE, n |-> 0, bits |-> <<>>]
      ELSE IF base # 10 /\ Len(DigitBits(v, k, base)) > IntBits
      THEN [nan |-> FALSE, n |-> sgn, bits |-> NumberOf(DigitBits(v, k, base))]
      ELSE [nan |-> FALSE, n |-> sgn * DigitsValue(v, k, base), bits |-> <<>>])))))

\* s.split('.')
RECURSIVE SplitDots(_, _)
SplitDots(s, cur) ==
    IF s = <<>> THEN <<cur>>
    ELSE IF Head(s) = "." THEN <<cur>> \o SplitDots(Tail(s), <<>>)
    ELSE SplitDots(Tail(s), Append(cur, Head(s)))

\* parts.join(sep) of a sequence of strings
RECURSIVE JoinWith(_, _)
JoinWith(parts, sep) ==
    IF parts = <<>> THEN <<>>
    ELSE IF Len(parts) = 1 THEN parts[1]
    ELSE parts[1] \o sep \o JoinWith(Tail(parts), sep)


\* ------------------------------------------------------------------------
\* subEscapeSequences
\* ------------------------------------------------------------------------

\* the character U+0008
BSP == "BSP"

\* BASIC_STR_ESCAPE_ENTRIES: the character after the backslash, and the
\* character the pair is replaced by
EscapeOf(c) ==
    CASE c = BS  -> BS
      [] c = DQ  -> DQ
      [] c = "b" -> BSP
      [] c = "t" -> "\t"
      [] c = "n" -> "\n"
      [] c = "f" -> "\f"
      [] c = "r" -> "\r"
      [] OTHER   -> ""

\* content.replace(BASIC_STR_ESCAPE_REGEX, ...): one scan, left to right
RECURSIVE BasicEscapes(_)
BasicEscapes(s) ==
    IF s = <<>> THEN <<>>
    ELSE IF Head(s) = BS /\ Len(s) >= 2 /\ EscapeOf(s[2]) # ""
         THEN <<EscapeOf(s[2])>> \o BasicEscapes(JsFrom(s, 2))
         ELSE <<Head(s)>> \o BasicEscapes(Tail(s))

\* length of the run of white space of s from index i
RECURSIVE SpaceRun(_, _)
SpaceRun(s, i) ==
    IF i <= Len(s) /\ s[i] \in SpaceChars THEN 1 + SpaceRun(s, i + 1) ELSE 0

\* escaped.replace(/\\\s*\r?\n\s*/g, ''): a backslash and the white space
\* after it are dropped when that white space holds a line feed
RECURSIVE LineContinuations(_)
LineContinuations(s) ==
    IF s = <<>> THEN <<>>
    ELSE Let(SpaceRun(s, 2), LAMBDA k :
           IF Head(s) = BS /\ \E i \in 2..(1 + k) : s[i] = "\n"
           THEN LineContinuations(JsFrom(s, 1 + k))
           ELSE <<Head(s)>> \o LineContinuations(Tail(s)))

\* The \uXXXX and \UXXXXXXXX replacement of the middle pass is left out: no
\* text of the input families holds a backslash followed by u or U.
subEscapeSequences(content) ==
    LineContinuations(BasicEscapes(content))

\* ------------------------------------------------------------------------
\* Names, rendered values and heap nodes
\* ------------------------------------------------------------------------

\* null and undefined where a name (typeName, attrName) is expected, and the
\* mark of a key that applySchemaInfo's argument does not hold
NullName == <<"<null>">>

Undef == <<"<undefined>">>

Absent == <<"<absent>">>

T_str == <<"s", "t", "r">>

T_int == <<"i", "n", "t">>

T_bool == <<"b", "o", "o", "l">>

T_date == <<"d", "a", "t", "e">>

BASE_TYPES ==
    {T_str, T_int, T_bool, T_date,
     <<"f", "l", "o", "a", "t">>, <<"d", "e", "c", "i", "m", "a", "l">>,
     <<"t", "i", "m", "e">>, <<"d", "a", "t", "e", "t", "i", "m", "e">>}

NullWord == <<"n", "u", "l", "l">>

\* !name of the code: null, undefined and the empty string are falsy
Falsy(name) ==
    name \in {NullName, Undef, <<>>}

\* A rendered value: t is "unrendered" (the UNRENDERED symbol), "null",
\* "str" (text s), "int" (number n), "nan", "true", "false"
Rv(t, s, n) ==
    [t |-> t, s |-> s, n |-> n]

UNRENDERED == Rv("unrendered", <<>>, 0)

\* A heap node.  kind is "value" (TycoValue), "array" (TycoArray: kids is
\* content), "inst" (TycoInstance: keys and kids are instKwargs, in order),
\* "ref" (TycoReference: kids is instArgs, rendered.n the resolved instance).
\* Flags are "true", "false" or "null"; parent is a node, 0 for null, -1 for
\* the globals map of the context.
MkNode(kind, content, typeName, keys, kids) ==
    [kind |-> kind, content |-> content, typeName |-> typeName,
     attrName |-> NullName, isNullable |-> "null", isArray |-> "null",
     parent |-> 0, isLiteralStr |-> FALSE, rendered |-> UNRENDERED,
     keys |-> keys, kids |-> kids]

\* the argument of applySchemaInfo
Kw(typeName, attrName, isNullable, isArray) ==
    [typeName |-> typeName, attrName |-> attrName,
     isNullable |-> isNullable, isArray |-> isArray]

\* outcome of an operation on the heap: err is "" or the kind of the error
Out(err, nodes, id) ==
    [err |-> err, nodes |-> nodes, id |-> id]

\* the assignments `this[attr] = val` of applySchemaInfo
Assigned(nd, kw) ==
    [nd EXCEPT !.typeName = IF kw.typeName = Absent THEN @ ELSE kw.typeName,
               !.attrName = IF kw.attrName = Absent THEN @ ELSE kw.attrName,
               !.isNullable = IF kw.isNullable = "absent" THEN @ ELSE kw.isNullable,
               !.isArray = IF kw.isArray = "absent" THEN @ ELSE kw.isArray]

\* the test without the exception for a nullable null
ArrayExpected_NoException(an) ==
    an.isArray = "true"

\* this.isArray === true && !(this.isNullable === true && this.content ===
\* 'null') of TycoValue.applySchemaInfo
ArrayExpected(an) ==
    an.isArray = "true" /\ ~(an.isNullable = "true" /\ an.content = NullWord)

\* applySchemaInfo of TycoValue, TycoInstance, TycoReference and TycoArray
RECURSIVE applySchemaInfo(_, _, _)
RECURSIVE ApplyToItems(_, _, _, _)
applySchemaInfo(nodes, id, kw) ==
    Let(Assigned(nodes[id], kw), LAMBDA an :
      CASE an.kind = "value" ->
             IF ArrayExpected(an)
             THEN Out("ExpectedArray", nodes, id)
             ELSE IF an.typeName # NullName /\ an.typeName \notin BASE_TYPES
             THEN Out("TypeMismatch", nodes, id)
             ELSE Out("", [nodes EXCEPT ![id] = an], id)
        [] an.kind \in {"inst", "ref"} ->
             IF kw.typeName # Absent /\ nodes[id].typeName # kw.typeName
             THEN Out("TypeMismatch", nodes, id)
             ELSE IF an.isArray = "true"
             THEN Out("ExpectedArray", nodes, id)
             ELSE Out("", [nodes EXCEPT ![id] = an], id)
        [] an.kind = "array" ->
             Let(ApplyToItems([nodes EXCEPT ![id] = an], an.kids, 1,
                              Kw(IF an.typeName # NullName THEN an.typeName ELSE Absent,
                                 IF an.attrName # NullName THEN an.attrName ELSE Absent,
                                 "false", "false")),
                 LAMBDA r :
                   IF r.err # "" THEN Out(r.err, nodes, id)
                   ELSE IF an.isArray = "false"
                   THEN Out("UnexpectedArray", nodes, id)
                   ELSE Out("", r.nodes, id)))

ApplyToItems(nodes, kids, i, kw) ==
    IF i > Len(kids) THEN Out("", nodes, 0)
    ELSE Let(applySchemaInfo(nodes, kids[i], kw), LAMBDA r :
           IF r.err # "" THEN r ELSE ApplyToItems(r.nodes, kids, i + 1, kw))

\* makeCopy of the four node classes: a deep copy, allocated at the end of
\* the heap.  A TycoValue copy keeps content and schema; the other classes
\* keep what their constructor takes.
RECURSIVE makeCopy(_, _)
RECURSIVE CopyAll(_, _, _, _)
\* a makeCopy that hands out the node itself
makeCopy_Shared(nodes, id) ==
    Out("", nodes, id)

makeCopy(nodes, id) ==
    LET nd == nodes[id]
    IN  IF nd.kind = "value"
        THEN Out("", Append(nodes,
                     [MkNode("value", nd.content, nd.typeName, <<>>, <<>>)
                         EXCEPT !.attrName = nd.attrName,
                                !.isNullable = nd.isNullable,
                                !.isArray = nd.isArray]),
                 Len(nodes) + 1)
        ELSE Let(CopyAll(nodes, nd.kids, 1, <<>>), LAMBDA r :
               Out("", Append(r.nodes,
                              MkNode(nd.kind, <<>>,
                                     IF nd.kind = "array" THEN NullName ELSE nd.typeName,
                                     nd.keys, r.ids)),
                   Len(r.nodes) + 1))

CopyAll(nodes, kids, i, ids) ==
    IF i > Len(kids) THEN [nodes |-> nodes, ids |-> ids]
    ELSE Let(makeCopy(nodes, kids[i]), LAMBDA r :
           CopyAll(r.nodes, kids, i + 1, Append(ids, r.id)))


\* ------------------------------------------------------------------------
\* Ordered maps (Map of the runtime): sequences of entries [k, v] in
\* insertion order
\* ------------------------------------------------------------------------

MapHas(m, k) ==
    \E i \in 1..Len(m) : m[i].k = k

MapGet(m, k) ==
    m[CHOOSE i \in 1..Len(m) : m[i].k = k].v

\* m.set(k, v): a key already held keeps its place
MapSet(m, k, v) ==
    IF MapHas(m, k)
    THEN [m EXCEPT ![CHOOSE i \in 1..Len(m) : m[i].k = k] = [k |-> k, v |-> v]]
    ELSE Append(m, [k |-> k, v |-> v])

\* a delete that leaves the entry in the map
MapDelete_Keep(m, k) ==
    m

MapDelete(m, k) ==
    SelectSeq(m, LAMBDA e : e.k # k)

MapKeys(m) ==
    [i \in 1..Len(m) |-> m[i].k]

MapValues(m) ==
    [i \in 1..Len(m) |-> m[i].v]

\* ------------------------------------------------------------------------
\* TycoStruct
\* ------------------------------------------------------------------------

\* attrTypes is the ordered map attr name -> type name; mappedInstances the
\* map key string -> instance
NewStruct(typeName) ==
    [typeName |-> typeName, attrTypes |-> <<>>, primaryKeys |-> <<>>,
     nullableKeys |-> {}, arrayKeys |-> {}, instances |-> <<>>,
     mappedInstances |-> <<>>]

\* the schema a struct gives attribute attrName (attrTypes.get of a name the
\* struct does not hold is undefined)
SchemaOf(st, attrName) ==
    Kw(IF MapHas(st.attrTypes, attrName) THEN MapGet(st.attrTypes, attrName) ELSE Undef,
       attrName,
       IF attrName \in st.nullableKeys THEN "true" ELSE "false",
       IF attrName \in st.arrayKeys THEN "true" ELSE "false")

\* resolveCompleteKwargs: for each attribute of the schema, in order, the
\* given argument or else a copy of the default, with the schema applied.
\* defaults is [defined, map]: createInstance may be handed undefined.
RECURSIVE resolveCompleteKwargs(_, _, _, _, _, _)
resolveCompleteKwargs(st, instKwargs, defaults, nodes, i, done) ==
    IF i > Len(st.attrTypes) THEN [err |-> "", nodes |-> nodes, ids |-> done]
    ELSE LET attrName == st.attrTypes[i].k
             given == MapHas(instKwargs, attrName)
         IN  IF ~given /\ ~defaults.defined
             THEN [err |-> "TypeError", nodes |-> nodes, ids |-> done]
             ELSE IF ~given /\ ~MapHas(defaults.map, attrName)
             THEN [err |-> "MissingAttr", nodes |-> nodes, ids |-> done]
             ELSE Let(IF given THEN Out("", nodes, MapGet(instKwargs, attrName))
                      ELSE makeCopy(nodes, MapGet(defaults.map, attrName)), LAMBDA c :
                  Let(applySchemaInfo(c.nodes, c.id, SchemaOf(st, attrName)), LAMBDA a :
                    IF a.err # "" THEN [err |-> a.err, nodes |-> nodes, ids |-> done]
                    ELSE resolveCompleteKwargs(st, instKwargs, defaults, a.nodes,
                                               i + 1, Append(done, c.id))))

\* the loop of createInlineInstance and of loadReference over instArgs:
\* a positional argument takes the i-th name of `names`, and none may follow
\* a keyed one.  Gives [err, names]: the name each argument is bound to.
RECURSIVE BindArgs(_, _, _, _, _, _)
BindArgs(nodes, instArgs, names, i, kwargsOnly, bound) ==
    IF i > Len(instArgs) THEN [err |-> "", names |-> bound]
    ELSE LET positional == Falsy(nodes[instArgs[i]].attrName)
         IN  IF positional /\ kwargsOnly
             THEN [err |-> "PositionalAfterKeyword", names |-> bound]
             ELSE BindArgs(nodes, instArgs, names, i + 1, kwargsOnly \/ ~positional,
                           Append(bound,
                                  IF ~positional THEN nodes[instArgs[i]].attrName
                                  ELSE IF i <= Len(names) THEN names[i] ELSE Undef))

\* instKwargs.set(name, attr) for every argument, in order
RECURSIVE KwargsOf(_, _, _, _)
KwargsOf(instArgs, names, i, m) ==
    IF i > Len(instArgs) THEN m
    ELSE KwargsOf(instArgs, names, i + 1, MapSet(m, names[i], instArgs[i]))

\* attr.attrName = this.attrNames[i] for every argument
RECURSIVE NameArgs(_, _, _, _)
NameArgs(nodes, instArgs, names, i) ==
    IF i > Len(instArgs) THEN nodes
    ELSE NameArgs([nodes EXCEPT ![instArgs[i]].attrName = names[i]], instArgs, names, i + 1)

\* createInlineInstance: the new TycoInstance is allocated last
createInlineInstance(st, instArgs, defaults, nodes) ==
    Let(BindArgs(nodes, instArgs, MapKeys(st.attrTypes), 1, FALSE, <<>>), LAMBDA b :
      IF b.err # "" THEN Out(b.err, nodes, 0)
      ELSE Let(resolveCompleteKwargs(
                 st, KwargsOf(instArgs, b.names, 1, <<>>), defaults,
                 NameArgs(nodes, instArgs, b.names, 1), 1, <<>>),
               LAMBDA r :
                 IF r.err # "" THEN Out(r.err, nodes, 0)
                 ELSE Out("", Append(r.nodes, MkNode("inst", <<>>, st.typeName,
                                                     MapKeys(st.attrTypes), r.ids)),
                          Len(r.nodes) + 1)))

\* ------------------------------------------------------------------------
\* Input lines and value trees
\* ------------------------------------------------------------------------

\* A value as loadTycoAttr reads it: a raw token or quoted string with its
\* text c (delimiters included), an inline array [items], or an inline
\* invocation type(items).  An item is [an, v]: the name of a `name:` prefix
\* (NullName when there is none) and the value.
V(c) ==
    [k |-> "val", c |-> c, type |-> <<>>, items |-> <<>>]

Arr(items) ==
    [k |-> "arr", c |-> <<>>, type |-> <<>>, items |-> items]

Inv(type, items) ==
    [k |-> "inv", c |-> <<>>, type |-> type, items |-> items]

NoValue ==
    [k |-> "none", c |-> <<>>, type |-> <<>>, items |-> <<>>]

Pos(v) ==
    [an |-> NullName, v |-> v]

Key(an, v) ==
    [an |-> an, v |-> v]

StructIndex(structs, typeName) ==
    IF \E i \in 1..Len(structs) : structs[i].typeName = typeName
    THEN CHOOSE i \in 1..Len(structs) : structs[i].typeName = typeName
    ELSE 0

\* this.defaults.get(typeName) of a lexer; defaults maps type name to the
\* map attr name -> default node
DefaultsGet(defaults, typeName) ==
    IF MapHas(defaults, typeName)
    THEN [defined |-> TRUE, map |-> MapGet(defaults, typeName)]
    ELSE [defined |-> FALSE, map |-> <<>>]

\* loadTycoAttr on a value tree, under the structs and the lexer's defaults:
\* allocates the node (children first) and applies {attrName} to it.
\* loadArray reads the items of an array or invocation.
RECURSIVE loadTycoAttr(_, _, _, _, _)
RECURSIVE loadArray(_, _, _, _, _, _)
loadTycoAttr(v, attrName, nodes, structs, defaults) ==
    Let(IF v.k = "val"
        THEN Out("", Append(nodes, MkNode("value", v.c, NullName, <<>>, <<>>)),
                 Len(nodes) + 1)
        ELSE Let(loadArray(v.items, 1, <<>>, nodes, structs, defaults), LAMBDA items :
               Let(StructIndex(structs, v.type), LAMBDA si :
                 IF items.err # "" THEN Out(items.err, nodes, 0)
                 ELSE IF v.k = "arr"
                 THEN Out("", Append(items.nodes,
                                     MkNode("array", <<>>, NullName, <<>>, items.ids)),
                          Len(items.nodes) + 1)
                 ELSE IF si = 0 \/ Len(structs[si].primaryKeys) > 0
                 THEN Out("", Append(items.nodes,
                                     MkNode("ref", <<>>, v.type, <<>>, items.ids)),
                          Len(items.nodes) + 1)
                 ELSE createInlineInstance(
                        structs[si], items.ids,
                        [defined |-> TRUE, map |-> DefaultsGet(defaults, v.type).map],
                        items.nodes))),
        LAMBDA made :
          IF made.err # "" THEN Out(made.err, nodes, 0)
          ELSE Let(applySchemaInfo(made.nodes, made.id,
                                   Kw(Absent, attrName, "absent", "absent")),
                   LAMBDA a :
                     IF a.err # "" THEN Out(a.err, nodes, 0)
                     ELSE Out("", a.nodes, made.id)))

loadArray(items, i, ids, nodes, structs, defaults) ==
    IF i > Len(items) THEN [err |-> "", nodes |-> nodes, ids |-> ids]
    ELSE Let(loadTycoAttr(items[i].v, items[i].an, nodes, structs, defaults), LAMBDA r :
           IF r.err # "" THEN [err |-> r.err, nodes |-> nodes, ids |-> ids]
           ELSE loadArray(items, i + 1, Append(ids, r.id), r.nodes, structs, defaults))


\* ------------------------------------------------------------------------
\* Render phases on one node
\* ------------------------------------------------------------------------

\* setParent: a TycoInstance is the parent of its fields, a TycoArray hands
\* its own parent to its items, a TycoReference leaves its arguments alone
RECURSIVE setParent(_, _, _)
RECURSIVE SetParentAll(_, _, _, _)
setParent(nodes, id, parent) ==
    LET nd == nodes[id]
        set == [nodes EXCEPT ![id].parent = parent]
    IN  CASE nd.kind = "inst" -> SetParentAll(set, nd.kids, 1, id)
          [] nd.kind = "array" -> SetParentAll(set, nd.kids, 1, parent)
          [] OTHER -> set

SetParentAll(nodes, kids, i, parent) ==
    IF i > Len(kids) THEN nodes
    ELSE SetParentAll(setParent(nodes, kids[i], parent), kids, i + 1, parent)

\* the null test without the schema: any content null renders as null
RendersNull_AnyNull(nd) ==
    nd.content = NullWord

\* this.isNullable && content === 'null' of renderBaseContent
RendersNull(nd) ==
    nd.isNullable = "true" /\ nd.content = NullWord

\* TycoValue.renderBaseContent: [err, rendered, isLiteralStr].  The types
\* float, decimal, time and datetime are not modelled: no input family
\* declares them.
RenderBaseValue(nd) ==
    LET content == nd.content
        stripped ==
          IF StartsWith(content, <<SQ, SQ, SQ>>) \/ StartsWith(content, <<DQ, DQ, DQ>>)
          THEN LET inner == JsSubstring(content, 3, Len(content) - 3)
               IN  IF StartsWith(inner, <<EOL>>) THEN JsFrom(inner, 1) ELSE inner
          ELSE IF StartsWith(content, <<SQ>>) \/ StartsWith(content, <<DQ>>)
          THEN JsSubstring(content, 1, Len(content) - 1)
          ELSE content
        signed == StartsWith(content, <<"-">>) \/ StartsWith(content, <<"+">>)
        sign == IF StartsWith(content, <<"-">>) THEN 0 - 1 ELSE 1
        digits == IF signed THEN JsFrom(content, 1) ELSE content
        prefixed(a, b) == Len(digits) >= 2 /\ digits[1] = "0" /\ digits[2] \in {a, b}
        base == IF prefixed("x", "X") THEN 16
                ELSE IF prefixed("o", "O") THEN 8
                ELSE IF prefixed("b", "B") THEN 2 ELSE 10
        int == Let(ParseInt(IF base = 10 THEN digits ELSE JsFrom(digits, 2), base),
                   LAMBDA parsed : IF parsed.nan THEN Rv("nan", <<>>, 0)
                                   ELSE IF parsed.bits # <<>>
                                   THEN Rv("bigint", parsed.bits, sign * parsed.n)
                                   ELSE Rv("int", <<>>, sign * parsed.n))
        ok(r, lit) == [err |-> "", rendered |-> r, isLiteralStr |-> lit]
    IN  IF nd.typeName = NullName \/ nd.attrName = NullName
           \/ nd.isNullable = "null" \/ nd.isArray = "null"
        THEN [err |-> "AttributesNotSet", rendered |-> UNRENDERED, isLiteralStr |-> FALSE]
        ELSE IF RendersNull(nd)
        THEN ok(Rv("null", <<>>, 0), nd.isLiteralStr)
        ELSE CASE nd.typeName = T_str ->
                    ok(Rv("str", stripped, 0), StartsWith(content, <<SQ>>))
               [] nd.typeName = T_int ->
                    ok(int, nd.isLiteralStr)
               [] nd.typeName = T_bool ->
                    IF content = <<"t", "r", "u", "e">>
                    THEN ok(Rv("true", <<>>, 0), nd.isLiteralStr)
                    ELSE IF content = <<"f", "a", "l", "s", "e">>
                    THEN ok(Rv("false", <<>>, 0), nd.isLiteralStr)
                    ELSE [err |-> "InvalidBool", rendered |-> UNRENDERED,
                          isLiteralStr |-> FALSE]
               [] nd.typeName = T_date ->
                    ok(Rv("str", content, 0), nd.isLiteralStr)

\* renderBaseContent of a node: values render, arrays and instances hand on
\* to their children, references do nothing
RECURSIVE renderBaseContent(_, _)
RECURSIVE RenderBaseAll(_, _, _)
renderBaseContent(nodes, id) ==
    LET nd == nodes[id]
    IN  CASE nd.kind = "value" ->
               Let(RenderBaseValue(nd), LAMBDA r :
                 IF r.err # "" THEN Out(r.err, nodes, id)
                 ELSE Out("", [nodes EXCEPT ![id].rendered = r.rendered,
                                            ![id].isLiteralStr = r.isLiteralStr], id))
          [] nd.kind = "ref" -> Out("", nodes, id)
          [] OTHER -> RenderBaseAll(nodes, nd.kids, 1)

RenderBaseAll(nodes, kids, i) ==
    IF i > Len(kids) THEN Out("", nodes, 0)
    ELSE Let(renderBaseContent(nodes, kids[i]), LAMBDA r :
           IF r.err # "" THEN r ELSE RenderBaseAll(r.nodes, kids, i + 1))

ObjectObject ==
    <<"[", "o", "b", "j", "e", "c", "t", " ", "O", "b", "j", "e", "c", "t", "]">>

\* The string the runtime makes of node.rendered: [err, s].  `joined` tells
\* an element of Array.prototype.join (null gives the empty string, a Symbol
\* a TypeError) from String(x).  The rendered of a TycoInstance is a plain
\* object, that of a resolved TycoReference the TycoInstance, that of a
\* TycoArray the array of its items' rendered.
RECURSIVE RenderedString(_, _, _)
RECURSIVE RenderedStrings(_, _, _, _)
RenderedString(nodes, id, joined) ==
    LET nd == nodes[id]
        rv == nd.rendered
        str(s) == [err |-> "", s |-> s]
    IN  CASE nd.kind = "inst" -> str(ObjectObject)
          [] nd.kind = "array" ->
               Let(RenderedStrings(nodes, nd.kids, 1, <<>>), LAMBDA items :
                 IF items.err # "" THEN [err |-> items.err, s |-> <<>>]
                 ELSE str(JoinWith(items.parts, <<",">>)))
          [] OTHER ->
               CASE rv.t = "unrendered" ->
                      IF joined THEN [err |-> "TypeError", s |-> <<>>]
                      ELSE str(<<"S", "y", "m", "b", "o", "l", "(", "u", "n", "r", "e",
                                 "n", "d", "e", "r", "e", "d", ")">>)
                 [] rv.t = "null" -> str(IF joined THEN <<>> ELSE NullWord)
                 [] rv.t = "str" -> str(rv.s)
                 [] rv.t = "int" -> str(IntToChars(rv.n))
                 [] rv.t = "nan" -> str(<<"N", "a", "N">>)
                 [] rv.t = "true" -> str(<<"t", "r", "u", "e">>)
                 [] rv.t = "false" -> str(<<"f", "a", "l", "s", "e">>)
                 [] rv.t = "inst" -> str(ObjectObject)

RenderedStrings(nodes, kids, i, parts) ==
    IF i > Len(kids) THEN [err |-> "", parts |-> parts]
    ELSE Let(RenderedString(nodes, kids[i], TRUE), LAMBDA r :
           IF r.err # "" THEN [err |-> r.err, parts |-> parts]
           ELSE RenderedStrings(nodes, kids, i + 1, Append(parts, r.s)))

\* instKwargs.get(attr) of an instance node: the field node, or 0 (undefined)
FieldOf(nodes, inst, attr) ==
    IF \E i \in 1..Len(nodes[inst].keys) : nodes[inst].keys[i] = attr
    THEN nodes[inst].kids[CHOOSE i \in 1..Len(nodes[inst].keys) : nodes[inst].keys[i] = attr]
    ELSE 0

\* primaryKeys.map(k => kwargs.get(k).rendered).join('\0'), kwargs given as
\* the field node of each primary key (0 when the map does not hold it)
PrimaryKeyOf(nodes, fields) ==
    IF \E i \in 1..Len(fields) : fields[i] = 0
    THEN [err |-> "TypeError", s |-> <<>>]
    ELSE Let(RenderedStrings(nodes, fields, 1, <<>>), LAMBDA r :
           IF r.err # "" THEN [err |-> r.err, s |-> <<>>]
           ELSE [err |-> "", s |-> JoinWith(r.parts, <<NUL>>)])

\* TycoStruct.loadPrimaryKeys from instance i on: [err, mappedInstances]
RECURSIVE loadPrimaryKeys(_, _, _, _)
loadPrimaryKeys(st, nodes, i, mapped) ==
    IF Len(st.primaryKeys) = 0 \/ i > Len(st.instances)
    THEN [err |-> "", mappedInstances |-> mapped]
    ELSE Let(PrimaryKeyOf(nodes, [j \in 1..Len(st.primaryKeys) |->
                                    FieldOf(nodes, st.instances[i], st.primaryKeys[j])]),
             LAMBDA key :
               IF key.err # "" THEN [err |-> key.err, mappedInstances |-> mapped]
               ELSE IF MapHas(mapped, key.s)
               THEN [err |-> "DuplicatePrimaryKey", mappedInstances |-> mapped]
               ELSE loadPrimaryKeys(st, nodes, i + 1,
                                    MapSet(mapped, key.s, st.instances[i])))

\* the loop of loadReference: each argument gets the schema of the
\* attribute it is bound to and is base-rendered; [err, nodes, kwargs]
RECURSIVE LoadReferenceArgs(_, _, _, _, _, _)
LoadReferenceArgs(st, instArgs, nodes, i, kwargsOnly, kwargs) ==
    IF i > Len(instArgs) THEN [err |-> "", nodes |-> nodes, kwargs |-> kwargs]
    ELSE LET positional == Falsy(nodes[instArgs[i]].attrName)
             attrName == IF ~positional THEN nodes[instArgs[i]].attrName
                         ELSE IF i <= Len(st.primaryKeys) THEN st.primaryKeys[i]
                         ELSE Undef
         IN  IF positional /\ kwargsOnly
             THEN [err |-> "PositionalAfterKeyword", nodes |-> nodes, kwargs |-> kwargs]
             ELSE Let(applySchemaInfo(nodes, instArgs[i], SchemaOf(st, attrName)), LAMBDA a :
                    IF a.err # "" THEN [err |-> a.err, nodes |-> nodes, kwargs |-> kwargs]
                    ELSE Let(renderBaseContent(a.nodes, instArgs[i]), LAMBDA b :
                           IF b.err # ""
                           THEN [err |-> b.err, nodes |-> nodes, kwargs |-> kwargs]
                           ELSE LoadReferenceArgs(st, instArgs, b.nodes, i + 1,
                                                  kwargsOnly \/ ~positional,
                                                  MapSet(kwargs, attrName, instArgs[i]))))

\* TycoStruct.loadReference: the instance the arguments select
loadReference(st, instArgs, nodes) ==
    Let(LoadReferenceArgs(st, instArgs, nodes, 1, FALSE, <<>>), LAMBDA r :
      IF r.err # "" THEN Out(r.err, nodes, 0)
      ELSE Let(PrimaryKeyOf(r.nodes, [j \in 1..Len(st.primaryKeys) |->
                                        IF MapHas(r.kwargs, st.primaryKeys[j])
                                        THEN MapGet(r.kwargs, st.primaryKeys[j])
                                        ELSE 0]),
               LAMBDA key :
                 IF key.err # "" THEN Out(key.err, nodes, 0)
                 ELSE IF ~MapHas(st.mappedInstances, key.s)
                 THEN Out("UnknownReference", nodes, 0)
                 ELSE Out("", r.nodes, MapGet(st.mappedInstances, key.s))))

\* renderReferences of a node
RECURSIVE renderReferences(_, _, _)
RECURSIVE RenderReferencesAll(_, _, _, _)
renderReferences(nodes, id, structs) ==
    LET nd == nodes[id]
        si == StructIndex(structs, nd.typeName)
    IN  CASE nd.kind = "value" -> Out("", nodes, id)
          [] nd.kind = "ref" ->
               IF nd.rendered # UNRENDERED THEN Out("DoubleRender", nodes, id)
               ELSE IF si = 0 THEN Out("BadTypeName", nodes, id)
               ELSE Let(loadReference(structs[si], nd.kids, nodes), LAMBDA r :
                      IF r.err # "" THEN Out(r.err, nodes, id)
                      ELSE Out("", [r.nodes EXCEPT ![id].rendered =
                                      Rv("inst", <<>>, r.id)], id))
          [] OTHER -> RenderReferencesAll(nodes, nd.kids, 1, structs)

RenderReferencesAll(nodes, kids, i, structs) ==
    IF i > Len(kids) THEN Out("", nodes, 0)
    ELSE Let(renderReferences(nodes, kids[i], structs), LAMBDA r :
           IF r.err # "" THEN r
           ELSE RenderReferencesAll(r.nodes, kids, i + 1, structs))


\* ------------------------------------------------------------------------
\* TycoValue.renderTemplates
\* ------------------------------------------------------------------------

GlobalWord == <<"g", "l", "o", "b", "a", "l">>

\* Objects a template path walks over: a node, -1 the globals map, 0 null,
\* -2 undefined.  tryGetAttr gives [err, id], id = 0 for undefined.
tryGetAttr(nodes, globals, target, attr) ==
    LET found(id) == [err |-> "", id |-> id]
    IN  IF target = 0 - 1
        THEN found(IF MapHas(globals, attr) THEN MapGet(globals, attr) ELSE 0)
        ELSE IF target <= 0 THEN found(0)
        ELSE CASE nodes[target].kind = "ref" ->
                    IF nodes[target].rendered = UNRENDERED
                    THEN [err |-> "UnresolvedReferenceInTemplate", id |-> 0]
                    ELSE found(FieldOf(nodes, nodes[target].rendered.n, attr))
               [] nodes[target].kind = "inst" -> found(FieldOf(nodes, target, attr))
               [] OTHER -> found(0)

\* while (varPath.startsWith('.')) { obj = obj.parent; ... }
RECURSIVE ParentHops(_, _, _)
ParentHops(nodes, obj, varPath) ==
    IF ~StartsWith(varPath, <<".">>) THEN [err |-> "", obj |-> obj, path |-> varPath]
    ELSE IF obj \in {0, 0 - 2} THEN [err |-> "TypeError", obj |-> obj, path |-> varPath]
    ELSE LET p == IF obj = 0 - 1 THEN 0 - 2 ELSE nodes[obj].parent
         IN  IF p = 0 THEN [err |-> "ParentOverflow", obj |-> obj, path |-> varPath]
             ELSE ParentHops(nodes, p, Tail(varPath))

\* the loop over the queue of path segments
RECURSIVE WalkPath(_, _, _, _, _)
WalkPath(nodes, globals, obj, queue, firstSegment) ==
    IF queue = <<>> THEN [err |-> "", obj |-> obj]
    ELSE Let(tryGetAttr(nodes, globals, obj, Head(queue)), LAMBDA got :
           IF got.err # "" THEN [err |-> got.err, obj |-> obj]
           ELSE IF got.id # 0
           THEN WalkPath(nodes, globals, got.id, Tail(queue), firstSegment)
           ELSE IF Len(queue) > 1
           THEN WalkPath(nodes, globals, obj,
                         <<queue[1] \o <<".">> \o queue[2]>> \o SubSeq(queue, 3, Len(queue)),
                         firstSegment)
           ELSE IF Head(queue) = GlobalWord /\ firstSegment = GlobalWord
           THEN WalkPath(nodes, globals, 0 - 1, Tail(queue), firstSegment)
           ELSE [err |-> "UnknownAttr", obj |-> obj])

\* templateRender: the text that replaces {templateVar} in the value `self`
templateRender(nodes, globals, self, templateVar) ==
    Let(IF StartsWith(templateVar, <<".", ".">>)
        THEN ParentHops(nodes, nodes[self].parent, Tail(templateVar))
        ELSE [err |-> "", obj |-> nodes[self].parent, path |-> templateVar], LAMBDA hops :
      IF hops.err # "" THEN [err |-> hops.err, s |-> <<>>]
      ELSE IF hops.path = <<>> THEN [err |-> "EmptyTemplate", s |-> <<>>]
      ELSE Let(SplitDots(hops.path, <<>>), LAMBDA parts :
           Let(WalkPath(nodes, globals, hops.obj, parts, parts[1]), LAMBDA walk :
             IF walk.err # "" THEN [err |-> walk.err, s |-> <<>>]
             ELSE IF walk.obj = 0 - 1
             THEN [err |-> "", s |-> <<"u", "n", "d", "e", "f", "i", "n", "e", "d">>]
             ELSE IF ~Falsy(nodes[walk.obj].typeName)
                     /\ nodes[walk.obj].typeName \notin {T_str, T_int}
             THEN [err |-> "UntemplatableType", s |-> <<>>]
             ELSE RenderedString(nodes, walk.obj, FALSE))))

\* length of the run of [\w\.] characters of s from index i
RECURSIVE PathRun(_, _)
PathRun(s, i) ==
    IF i <= Len(s) /\ s[i] \in (WordChars \cup {"."}) THEN 1 + PathRun(s, i + 1) ELSE 0

\* rendered.replace(TEMPLATE_REGEX, templateRender) from index i on
RECURSIVE ReplaceTemplates(_, _, _, _, _)
ReplaceTemplates(nodes, globals, self, s, i) ==
    IF i > Len(s) THEN [err |-> "", s |-> <<>>]
    ELSE Let(PathRun(s, i + 1), LAMBDA k :
           IF s[i] = "{" /\ k > 0 /\ i + k + 1 <= Len(s) /\ s[i + k + 1] = "}"
           THEN Let(templateRender(nodes, globals, self, SubSeq(s, i + 1, i + k)),
                    LAMBDA sub :
                      IF sub.err # "" THEN sub
                      ELSE Let(ReplaceTemplates(nodes, globals, self, s, i + k + 2),
                               LAMBDA rest :
                                 IF rest.err # "" THEN rest
                                 ELSE [err |-> "", s |-> sub.s \o rest.s]))
           ELSE Let(ReplaceTemplates(nodes, globals, self, s, i + 1), LAMBDA rest :
                  IF rest.err # "" THEN rest
                  ELSE [err |-> "", s |-> <<s[i]>> \o rest.s]))

\* a renderTemplates that substitutes in literal strings as well
SkipsTemplates_NoLiteral(nd) ==
    \/ nd.typeName # T_str
    \/ (nd.isNullable = "true" /\ nd.rendered.t = "null")

\* the early return of TycoValue.renderTemplates for what is no template
SkipsTemplates(nd) ==
    \/ nd.typeName # T_str
    \/ nd.isLiteralStr
    \/ (nd.isNullable = "true" /\ nd.rendered.t = "null")

\* renderTemplates of a node
RECURSIVE renderTemplates(_, _, _)
RECURSIVE RenderTemplatesAll(_, _, _, _)
renderTemplates(nodes, id, globals) ==
    LET nd == nodes[id]
    IN  CASE nd.kind = "ref" -> Out("", nodes, id)
          [] nd.kind = "value" ->
               IF SkipsTemplates(nd) THEN Out("", nodes, id)
               ELSE Let(ReplaceTemplates(nodes, globals, id, nd.rendered.s, 1), LAMBDA r :
                      IF r.err # "" THEN Out(r.err, nodes, id)
                      ELSE Out("", [nodes EXCEPT ![id].rendered =
                                      Rv("str", subEscapeSequences(r.s), 0)], id))
          [] OTHER -> RenderTemplatesAll(nodes, nd.kids, 1, globals)

RenderTemplatesAll(nodes, kids, i, globals) ==
    IF i > Len(kids) THEN Out("", nodes, 0)
    ELSE Let(renderTemplates(nodes, kids[i], globals), LAMBDA r :
           IF r.err # "" THEN r
           ELSE RenderTemplatesAll(r.nodes, kids, i + 1, globals))

\* ------------------------------------------------------------------------
\* Serialization
\* ------------------------------------------------------------------------

\* A value of the returned tree: t is "str", "int", "nan", "true", "false",
\* "null", "list" (kids) or "map" (keys and kids, in insertion order)
Json(t, s, n, keys, kids) ==
    [t |-> t, s |-> s, n |-> n, keys |-> keys, kids |-> kids]

\* toJSON of a node
RECURSIVE toJSON(_, _)
toJSON(nodes, id) ==
    LET nd == nodes[id]
        kids == [i \in 1..Len(nd.kids) |-> toJSON(nodes, nd.kids[i])]
    IN  CASE nd.kind = "value" -> Json(nd.rendered.t, nd.rendered.s, nd.rendered.n, <<>>, <<>>)
          [] nd.kind = "ref" -> toJSON(nodes, nd.rendered.n)
          [] nd.kind = "array" -> Json("list", <<>>, 0, <<>>, kids)
          [] nd.kind = "inst" -> Json("map", <<>>, 0, nd.keys, kids)

\* a toObject that lists the instances of every struct type
EmitsStruct_Always(st) ==
    TRUE

\* whether toObject gives a struct type an entry of the tree
EmitsStruct(st) ==
    Len(st.primaryKeys) # 0

\* TycoContext.toObject: an ordered map from key to value; an assignment to
\* a key the object already holds replaces its value
RECURSIVE StructEntries(_, _, _, _)
StructEntries(structs, i, nodes, result) ==
    IF i > Len(structs) THEN result
    ELSE StructEntries(structs, i + 1, nodes,
           IF ~EmitsStruct(structs[i]) THEN result
           ELSE MapSet(result, structs[i].typeName,
                       Json("list", <<>>, 0, <<>>,
                            [j \in 1..Len(structs[i].instances) |->
                                toJSON(nodes, structs[i].instances[j])])))

RECURSIVE GlobalEntries(_, _, _, _)
GlobalEntries(globals, i, nodes, result) ==
    IF i > Len(globals) THEN result
    ELSE GlobalEntries(globals, i + 1, nodes,
                       MapSet(result, globals[i].k, toJSON(nodes, globals[i].v)))

toObject(globals, structs, nodes) ==
    StructEntries(structs, 1, nodes, GlobalEntries(globals, 1, nodes, <<>>))


\* ------------------------------------------------------------------------
\* Lines of the input
\* ------------------------------------------------------------------------

\* A line, by the pattern of the lexer it matches: "include" (#include
\* path), "global" (GLOBAL_SCHEMA_REGEX: opt is "?" or "", type, arr, name,
\* then the value), "struct" (STRUCT_BLOCK_REGEX: name), "schema"
\* (STRUCT_SCHEMA_REGEX: opt is "*", "?" or "", type, arr, name, and the
\* default value if any), "default" (STRUCT_DEFAULTS_REGEX: name and the
\* value if any), "inst" (STRUCT_INSTANCE_REGEX: the arguments), "blank"
\* (nothing but white space or a comment), "bad" (an unindented line that
\* matches none of them).
Line(k, opt, type, arr, name, val, items, path) ==
    [k |-> k, opt |-> opt, type |-> type, arr |-> arr, name |-> name,
     val |-> val, items |-> items, path |-> path, tail |-> <<>>, raw |-> <<>>]

\* the line with `tail` between its last value and the end of the line
Commented(line, tail) ==
    [line EXCEPT !.tail = tail]

GlobalLine(opt, type, arr, name, val) ==
    Line("global", opt, type, arr, name, val, <<>>, "")

StructLine(name) ==
    Line("struct", "", <<>>, FALSE, name, NoValue, <<>>, "")

SchemaLine(opt, type, arr, name, val) ==
    Line("schema", opt, type, arr, name, val, <<>>, "")

DefaultLine(name, val) ==
    Line("default", "", <<>>, FALSE, name, val, <<>>, "")

InstLine(items) ==
    Line("inst", "", <<>>, FALSE, <<>>, NoValue, items, "")

IncludeLine(path) ==
    Line("include", "", <<>>, FALSE, <<>>, NoValue, <<>>, path)

BlankLine ==
    Line("blank", "", <<>>, FALSE, <<>>, NoValue, <<>>, "")

BadLine ==
    Line("bad", "", <<>>, FALSE, <<>>, NoValue, <<>>, "")

\* an indented line with the text raw that is not blank and matches none of
\* STRUCT_SCHEMA_REGEX, STRUCT_DEFAULTS_REGEX and STRUCT_INSTANCE_REGEX
JunkLine(raw) ==
    [Line("junk", "", <<>>, FALSE, <<>>, NoValue, <<>>, "") EXCEPT !.raw = raw]

\* lines that begin with white space
Indented(line) ==
    line.k \in {"schema", "default", "inst", "junk"}

\* ------------------------------------------------------------------------
\* The text of a line after its value
\* ------------------------------------------------------------------------

\* 0-based index of the first character of s at or after offset i that is in
\* the set cs, -1 when there is none
RECURSIVE IndexFrom(_, _, _)
IndexFrom(s, cs, i) ==
    IF i >= Len(s) THEN 0 - 1
    ELSE IF s[i + 1] \in cs THEN i
    ELSE IndexFrom(s, cs, i + 1)

\* String.prototype.trimEnd
RECURSIVE TrimEnd(_)
TrimEnd(s) ==
    IF s # <<>> /\ s[Len(s)] \in SpaceChars THEN TrimEnd(SubSeq(s, 1, Len(s) - 1))
    ELSE s

\* text.match(/^[ \t]+/) and slice
RECURSIVE TrimLeadingSpacesAndTabs(_)
TrimLeadingSpacesAndTabs(s) ==
    IF s # <<>> /\ Head(s) \in {" ", "\t"} THEN TrimLeadingSpacesAndTabs(Tail(s))
    ELSE s

\* the ASCII control characters but the tab
ILLEGAL_STR_CHARS ==
    {NUL, BSP, EOL, "\r", "\f"}

\* stripComments: [err, s]
stripComments(raw) ==
    Let(IndexFrom(raw, {"#"}, 0), LAMBDA hashIndex :
      IF hashIndex = 0 - 1 THEN [err |-> "", s |-> TrimEnd(raw)]
      ELSE LET after == JsFrom(raw, hashIndex + 1)
               commentText == IF after # <<>> /\ after[Len(after)] = EOL
                              THEN SubSeq(after, 1, Len(after) - 1) ELSE after
           IN  IF \E i \in 1..Len(commentText) : commentText[i] \in ILLEGAL_STR_CHARS
               THEN [err |-> "InvalidComment", s |-> <<>>]
               ELSE [err |-> "", s |-> TrimEnd(JsSubstring(raw, 0, hashIndex))])

\* the delimiters loadTycoAttr always holds bad unless they are good
BadDelims(goodDelim) ==
    {"(", ")", "[", "]", ","} \ goodDelim

\* stripNextAttrAndDelim on the text raw of lines[0], and the
\* trimLeadingSpacesAndTabs of loadTycoAttr on what it leaves:
\* [err, text, delim, rest]
stripNextAttrAndDelim(raw, goodDelim) ==
    Let(stripComments(raw), LAMBDA content :
      IF content.err # ""
      THEN [err |-> content.err, text |-> <<>>, delim |-> "", rest |-> <<>>]
      ELSE Let(content.s \o <<EOL>>, LAMBDA allContent :
             Let(IndexFrom(allContent, goodDelim \cup BadDelims(goodDelim), 0),
                 LAMBDA index :
                   IF index = 0 - 1
                   THEN [err |-> "NoDelim", text |-> <<>>, delim |-> "", rest |-> <<>>]
                   ELSE IF allContent[index + 1] \in BadDelims(goodDelim)
                   THEN [err |-> "BadDelim", text |-> <<>>, delim |-> "", rest |-> <<>>]
                   ELSE [err |-> "", text |-> JsSubstring(allContent, 0, index),
                         delim |-> allContent[index + 1],
                         rest |-> TrimLeadingSpacesAndTabs(JsFrom(raw, index + 1))])))

\* a path of the file system by its text
PathOf(text) ==
    IF Len(text) = 1 /\ text[1] \in {"A", "B", "D"} THEN text[1] ELSE "X"

\* length of the run of \w characters of s from index i
RECURSIVE WordRun(_, _)
WordRun(s, i) ==
    IF i <= Len(s) /\ s[i] \in WordChars THEN 1 + WordRun(s, i + 1) ELSE 0

\* /^#include\s+(\S.*)$/ on the line less its trailing white space: the
\* path, or the empty text for no match
IncludeMatch(text) ==
    Let(TrimEnd(text), LAMBDA t :
      IF StartsWith(t, <<"#", "i", "n", "c", "l", "u", "d", "e">>)
         /\ SpaceRun(t, 9) > 0
      THEN JsFrom(t, 8 + SpaceRun(t, 9))
      ELSE <<>>)

\* GLOBAL_SCHEMA_REGEX: [ok, opt, type, arr, name, len], len the length of
\* the match
GlobalMatch(text) ==
    LET no == [ok |-> FALSE, opt |-> "", type |-> <<>>, arr |-> FALSE,
               name |-> <<>>, len |-> 0]
        o == IF text # <<>> /\ text[1] = "?" THEN 1 ELSE 0
        t == WordRun(text, o + 1)
        a == IF JsSubstring(text, o + t, o + t + 2) = <<"[", "]">> THEN 2 ELSE 0
        s == SpaceRun(text, o + t + a + 1)
        b == o + t + a + s
        n == PathRun(text, b + 1)
        c == b + n + SpaceRun(text, b + n + 1)
    IN  IF /\ t > 0 /\ DigitValue(text[o + 1]) > 9
           /\ s > 0
           /\ n > 0 /\ DigitValue(text[b + 1]) > 9
           /\ c < Len(text) /\ text[c + 1] = ":"
        THEN [ok |-> TRUE, opt |-> IF o = 1 THEN "?" ELSE "",
              type |-> SubSeq(text, o + 1, o + t), arr |-> a = 2,
              name |-> SubSeq(text, b + 1, b + n), len |-> c + 1]
        ELSE no

\* the value and the tail of the text that follows the colon of a global:
\* a string in quotes, or a token up to the white space, comment or
\* delimiter after it
ValueOf(rest) ==
    IF rest = <<>> THEN [val |-> NoValue, tail |-> <<>>]
    ELSE IF rest[1] \in {DQ, SQ} /\ IndexFrom(rest, {rest[1]}, 1) > 0
    THEN [val |-> V(SubSeq(rest, 1, IndexFrom(rest, {rest[1]}, 1) + 1)), tail |-> <<>>]
    ELSE Let(IndexFrom(rest, SpaceChars \cup {"#", "(", ")", "[", "]", ","}, 0),
             LAMBDA k : [val |-> V(SubSeq(rest, 1, k)),
                         tail |-> SubSeq(rest, k + 1, Len(TrimEnd(rest)))])

\* the line that process() takes a text for, by the order of its patterns
LexLine(text) ==
    Let(GlobalMatch(text), LAMBDA g :
      IF IncludeMatch(text) # <<>> THEN IncludeLine(PathOf(IncludeMatch(text)))
      ELSE IF g.ok
      THEN Let(ValueOf(SkipSpaces(JsFrom(text, g.len))), LAMBDA v :
             Commented(GlobalLine(g.opt, g.type, g.arr, g.name, v.val), v.tail))
      ELSE IF /\ WordRun(text, 1) > 0 /\ DigitValue(text[1]) > 9
              /\ WordRun(text, 1) < Len(text) /\ text[WordRun(text, 1) + 1] = ":"
      THEN StructLine(SubSeq(text, 1, WordRun(text, 1)))
      ELSE IF stripComments(text).s = <<>> THEN BlankLine
      ELSE BadLine)

\* ------------------------------------------------------------------------
\* Source fragments
\* ------------------------------------------------------------------------

CR == "\r"

\* text.replace(/\r?\n$/, '')
WithoutLineEnd(text) ==
    IF Len(text) >= 2 /\ text[Len(text) - 1] = CR /\ text[Len(text)] = EOL
    THEN SubSeq(text, 1, Len(text) - 2)
    ELSE IF text # <<>> /\ text[Len(text)] = EOL THEN SubSeq(text, 1, Len(text) - 1)
    ELSE text

\* new SourceFragment(text, {row, column}): lineText is left to its default
SourceFragment(text, row, column) ==
    [text |-> text, row |-> row, column |-> column, lineText |-> WithoutLineEnd(text)]

\* clamp(value, min, max), for a value that is a number
clamp(value, min, max) ==
    LET lifted == IF value > min THEN value ELSE min
    IN  IF lifted < max THEN lifted ELSE max

\* the body of the loop of advance without the branch for '\r'
AdvanceChar_NoCarriageReturn(pos, ch) ==
    IF ch = EOL THEN [row |-> pos.row + 1, column |-> 1]
    ELSE [row |-> pos.row, column |-> pos.column + 1]

\* the body of the loop of advance: the position after the character ch
AdvanceChar(pos, ch) ==
    IF ch = EOL THEN [row |-> pos.row + 1, column |-> 1]
    ELSE IF ch = CR THEN [row |-> pos.row, column |-> 1]
    ELSE [row |-> pos.row, column |-> pos.column + 1]

\* the loop of advance from index i (from 0) up to length
RECURSIVE AdvanceLoop(_, _, _, _)
AdvanceLoop(text, i, length, pos) ==
    IF i >= length THEN pos
    ELSE AdvanceLoop(text, i + 1, length, AdvanceChar(pos, text[i + 1]))

\* fragment.advance(offset)
advance(fragment, offset) ==
    AdvanceLoop(fragment.text, 0, clamp(offset, 0, Len(fragment.text)),
                [row |-> fragment.row, column |-> fragment.column])

\* fragment.slice(start), end left out: actualEnd is the length of the text
slice(fragment, start) ==
    LET actualStart == clamp(start, 0, Len(fragment.text))
        actualEnd == clamp(Len(fragment.text), actualStart, Len(fragment.text))
        pos == advance(fragment, actualStart)
    IN  [text |-> SubSeq(fragment.text, actualStart + 1, actualEnd),
         row |-> pos.row, column |-> pos.column, lineText |-> fragment.lineText]

\* a fragment as constructed, of which nothing has been sliced off
Unsliced(fragment) ==
    [of |-> fragment, got |-> fragment, start |-> 0]

\* no fragment is at hand while the parser runs
NoSlice ==
    Unsliced(SourceFragment(<<>>, 1, 1))

\* ------------------------------------------------------------------------
\* Inputs: what a caller hands to parseContent or parseFile
\* ------------------------------------------------------------------------

\* An input: mode "content" (parseContent(text)) or "file" (parseFile(root));
\* files maps each path of the file system to the lines of the file
Input(mode, root, text, fa, fb, fd) ==
    [mode |-> mode, root |-> root, text |-> text,
     files |-> [A |-> fa, B |-> fb, D |-> fd]]

Text(lines) ==
    Input("content", "", lines, <<>>, <<>>, <<>>)

\* sequences without repetition of at most n lines of a menu
Picks(menu, n) ==
    UNION {{[i \in 1..k |-> menu[f[i]]] :
              f \in {g \in [1..k -> 1..Len(menu)] :
                       \A i, j \in 1..k : i # j => g[i] # g[j]}} : k \in 0..n}

\* sequences of at most n lines of a menu
Runs(menu, n) ==
    UNION {{[i \in 1..k |-> menu[f[i]]] : f \in [1..k -> 1..Len(menu)]} : k \in 0..n}

Quoted(q, s) ==
    <<q>> \o s \o <<q>>

\* str a: "{b}"; str b: "{c}"; str c: "x"; str c: '{a}\n'; a str b in
\* triple single quotes with a line break, {c} and \t inside; bool a: yes;
\* int c: 0x10
GlobalMenu ==
    << GlobalLine("", T_str, FALSE, <<"a">>, V(Quoted(DQ, <<"{", "b", "}">>))),
       GlobalLine("", T_str, FALSE, <<"b">>, V(Quoted(DQ, <<"{", "c", "}">>))),
       GlobalLine("", T_str, FALSE, <<"c">>, V(Quoted(DQ, <<"x">>))),
       GlobalLine("", T_str, FALSE, <<"c">>, V(Quoted(SQ, <<"{", "a", "}", BS, "n">>))),
       GlobalLine("", T_str, FALSE, <<"b">>,
                  V(<<SQ, SQ, SQ, EOL, "{", "c", "}", BS, "t", SQ, SQ, SQ>>)),
       GlobalLine("", T_bool, FALSE, <<"a">>, V(<<"y", "e", "s">>)),
       GlobalLine("", T_int, FALSE, <<"c">>, V(<<"0", "x", "1", "0">>)) >>

\* texts of globals only
FamGlobals ==
    {Text(lines) : lines \in Picks(GlobalMenu, MaxGlobals)}

T_T == <<"T">>

T_S == <<"S">>

\* the schemas of T the row families use, and the rows that go with each:
\* one int key (16, 0x10, 17); two str keys, and the same two attributes
\* without a key (x<NUL>y, z / x, y<NUL>z / x, y)
IntKeySchema ==
    << SchemaLine("*", T_int, FALSE, <<"i", "d">>, NoValue) >>

StrKeysSchema ==
    << SchemaLine("*", T_str, FALSE, <<"a">>, NoValue),
       SchemaLine("*", T_str, FALSE, <<"b">>, NoValue) >>

NoKeySchema ==
    << SchemaLine("", T_str, FALSE, <<"a">>, NoValue),
       SchemaLine("", T_str, FALSE, <<"b">>, NoValue) >>

IntRows ==
    << InstLine(<<Pos(V(<<"1", "6">>))>>),
       InstLine(<<Pos(V(<<"0", "x", "1", "0">>))>>),
       InstLine(<<Pos(V(<<"1", "7">>))>>) >>

StrRows ==
    << InstLine(<<Pos(V(<<"x", NUL, "y">>)), Pos(V(<<"z">>))>>),
       InstLine(<<Pos(V(<<"x">>)), Pos(V(<<"y", NUL, "z">>))>>),
       InstLine(<<Pos(V(<<"x">>)), Pos(V(<<"y">>))>>) >>

\* a block of T with the first k rows, and the block that reopens T for the
\* others when there are any
Blocks(schema, rows, k) ==
    <<StructLine(T_T)>> \o schema \o SubSeq(rows, 1, k)
    \o (IF k < Len(rows) THEN <<StructLine(T_T)>> \o SubSeq(rows, k + 1, Len(rows))
        ELSE <<>>)

RowTexts(schema, menu) ==
    UNION {{Text(Blocks(schema, rows, k)) : k \in 0..Len(rows)} :
             rows \in Runs(menu, MaxRows)}

FamRows ==
    RowTexts(IntKeySchema, IntRows) \cup RowTexts(StrKeysSchema, StrRows)
    \cup RowTexts(NoKeySchema, StrRows)

\* Reference inputs: T with one key (id) or two (id, z) and two rows, S with
\* a row that holds the reference T(args) and a string that reads {t.z}
\* through it, its block before or after the block of T
RefTarget(twoKeys) ==
    << StructLine(T_T),
       SchemaLine("*", T_int, FALSE, <<"i", "d">>, NoValue),
       SchemaLine(IF twoKeys THEN "*" ELSE "", T_str, FALSE, <<"z">>, NoValue),
       InstLine(<<Pos(V(<<"1", "6">>)), Pos(V(<<"p">>))>>),
       InstLine(<<Pos(V(<<"1", "7">>)), Pos(V(<<"q">>))>>) >>

RefSource(args) ==
    << StructLine(T_S),
       SchemaLine("*", T_str, FALSE, <<"k">>, NoValue),
       SchemaLine("", T_T, FALSE, <<"t">>, NoValue),
       SchemaLine("", T_str, FALSE, <<"v">>, V(Quoted(DQ, <<"{", "t", ".", "z", "}">>))),
       InstLine(<<Pos(V(<<"s">>)), Pos(Inv(T_T, args))>>) >>

\* T(17), T(0x10), T(18), T(id: 16), T(17, q), T()
RefArgs ==
    { <<Pos(V(<<"1", "7">>))>>,
      <<Pos(V(<<"0", "x", "1", "0">>))>>,
      <<Pos(V(<<"1", "8">>))>>,
      <<Key(<<"i", "d">>, V(<<"1", "6">>))>>,
      <<Pos(V(<<"1", "7">>)), Pos(V(<<"q">>))>>,
      <<>> }

FamRefs ==
    {Text(IF first THEN RefSource(args) \o RefTarget(two)
          ELSE RefTarget(two) \o RefSource(args)) :
       first \in BOOLEAN, two \in BOOLEAN, args \in RefArgs}

\* a global and a struct type of one name: str T: "x" and T with a key
FamCollide ==
    {Text(<<GlobalLine("", T_str, FALSE, T_T, V(Quoted(DQ, <<"x">>)))>>
          \o Blocks(IntKeySchema, <<IntRows[1]>>, 1)),
     Text(Blocks(IntKeySchema, <<IntRows[1]>>, 1)
          \o <<GlobalLine("", T_str, FALSE, T_T, V(Quoted(DQ, <<"x">>)))>>)}

\* blocks with blank lines, a default in the schema (str n: d), a default
\* line (n: e), a default line that clears it (n:), rows that give n or not,
\* and a schema line after the rows
DefaultBlock(tail) ==
    << BlankLine, StructLine(T_T), BlankLine,
       SchemaLine("*", T_int, FALSE, <<"i", "d">>, NoValue),
       SchemaLine("", T_str, FALSE, <<"n">>, V(<<"d">>)),
       BlankLine,
       InstLine(<<Pos(V(<<"1">>))>>),
       DefaultLine(<<"n">>, V(<<"e">>)),
       BlankLine,
       InstLine(<<Pos(V(<<"2">>))>>) >> \o tail

FamDefaults ==
    {Text(DefaultBlock(tail)) :
       tail \in { <<>>,
                  <<InstLine(<<Pos(V(<<"3">>)), Pos(V(<<"f">>))>>), BlankLine>>,
                  <<DefaultLine(<<"n">>, NoValue), InstLine(<<Pos(V(<<"3">>))>>)>>,
                  <<DefaultLine(<<"n">>, V(<<"f">>)), InstLine(<<Pos(V(<<"3">>))>>)>>,
                  <<StructLine(T_T), InstLine(<<Pos(V(<<"3">>))>>)>>,
                  <<DefaultLine(<<"m">>, V(<<"e">>))>>,
                  <<SchemaLine("", T_str, FALSE, <<"m">>, NoValue)>> }}

\* schema rows of all modifiers: *int id, *int[] ks, int[] xs, ?str n
SchemaMenu ==
    << SchemaLine("*", T_int, FALSE, <<"i", "d">>, NoValue),
       SchemaLine("*", T_int, TRUE, <<"k", "s">>, NoValue),
       SchemaLine("", T_int, TRUE, <<"x", "s">>, NoValue),
       SchemaLine("?", T_str, FALSE, <<"n">>, NoValue) >>

\* a block of T with at most MaxSchema schema rows and no instance
FamSchemas ==
    {Text(<<StructLine(T_T)>> \o schema) : schema \in Runs(SchemaMenu, MaxSchema)}

\* what follows a raw token in the comment inputs: " # c", "#c",
\* " #include D", "#int b: 7", or nothing
Tails ==
    { <<>>,
      <<" ", "#", " ", "c">>,
      <<"#", "c">>,
      <<" ", "#", "i", "n", "c", "l", "u", "d", "e", " ", "D">>,
      <<"#", "i", "n", "t", " ", "b", ":", " ", "7">> }

\* the four rows that end in a raw token, each with a tail: the global
\* str a: x, and in a block of T (*int id, str n: d) the schema default
\* str n: d, the default row n: e and the instance row - 1
CommentedRows(tail) ==
    LET head == <<StructLine(T_T), SchemaLine("*", T_int, FALSE, <<"i", "d">>, NoValue)>>
        n(t) == Commented(SchemaLine("", T_str, FALSE, <<"n">>, V(<<"d">>)), t)
    IN  { <<Commented(GlobalLine("", T_str, FALSE, <<"a">>, V(<<"x">>)), tail)>>,
          head \o <<n(tail), InstLine(<<Pos(V(<<"1">>))>>)>>,
          head \o <<n(<<>>), Commented(DefaultLine(<<"n">>, V(<<"e">>)), tail),
                    InstLine(<<Pos(V(<<"1">>))>>)>>,
          head \o <<n(<<>>), Commented(InstLine(<<Pos(V(<<"1">>))>>), tail),
                    InstLine(<<Pos(V(<<"2">>))>>)>> }

\* texts with a commented row, beside a file D that declares a global c
FamComments ==
    {Input("content", "", lines, <<>>, <<>>,
           <<GlobalLine("", T_str, FALSE, <<"c">>, V(Quoted(DQ, <<"x">>)))>>) :
       lines \in UNION {CommentedRows(tail) : tail \in Tails}}

\* indented lines that are no row: " g" and " g h"
Junk ==
    { JunkLine(<<" ", "g">>), JunkLine(<<" ", "g", " ", "h">>) }

\* a junk line at the top of the text, after the schema of T and between
\* the rows of T
FamJunk ==
    {Text(lines) :
       lines \in UNION {{ <<j>>,
                          Blocks(IntKeySchema, <<j, IntRows[1]>>, 2),
                          Blocks(IntKeySchema, <<IntRows[1], j, IntRows[3]>>, 3) } :
                        j \in Junk}}

\* globals that hold null or not under a schema that is nullable or not:
\* ?str m: null; str m: null; ?str m: "null"; ?str m: "p"; ?int m: 5;
\* ?int m: null; ?int[] m: null; int[] m: null; ?str[] m: [a, null];
\* ?int[] m: [1]
NullMenu ==
    { GlobalLine("?", T_str, FALSE, <<"m">>, V(NullWord)),
      GlobalLine("", T_str, FALSE, <<"m">>, V(NullWord)),
      GlobalLine("?", T_str, FALSE, <<"m">>, V(Quoted(DQ, NullWord))),
      GlobalLine("?", T_str, FALSE, <<"m">>, V(Quoted(DQ, <<"p">>))),
      GlobalLine("?", T_int, FALSE, <<"m">>, V(<<"5">>)),
      GlobalLine("?", T_int, FALSE, <<"m">>, V(NullWord)),
      GlobalLine("?", T_int, TRUE, <<"m">>, V(NullWord)),
      GlobalLine("", T_int, TRUE, <<"m">>, V(NullWord)),
      GlobalLine("?", T_str, TRUE, <<"m">>, Arr(<<Pos(V(<<"a">>)), Pos(V(NullWord))>>)),
      GlobalLine("?", T_int, TRUE, <<"m">>, Arr(<<Pos(V(<<"1">>))>>)) }

\* T with *int id, ?str n and str z and the row - 1, v, w, for v and w
\* among null, "p" and q
NullRows ==
    {Blocks(<< SchemaLine("*", T_int, FALSE, <<"i", "d">>, NoValue),
               SchemaLine("?", T_str, FALSE, <<"n">>, NoValue),
               SchemaLine("", T_str, FALSE, <<"z">>, NoValue) >>,
            <<InstLine(<<Pos(V(<<"1">>)), Pos(V(v)), Pos(V(w))>>)>>, 1) :
       v, w \in {NullWord, Quoted(DQ, <<"p">>), <<"q">>}}

\* texts of one global of NullMenu, or of one block of NullRows
FamNullable ==
    {Text(<<g>>) : g \in NullMenu} \cup {Text(lines) : lines \in NullRows}

\* int contents: 0xFF, 0o777, 0b1010, -100, -0x10, +7, 0XfF, 0O17, -0B11,
\* 0x20000000000001 (2^53 + 1), 0b102, 12abc, abc, 0xZZ, 0x, - and 1_0
IntMenu ==
    { <<"0", "x", "F", "F">>, <<"0", "o", "7", "7", "7">>,
      <<"0", "b", "1", "0", "1", "0">>, <<"-", "1", "0", "0">>,
      <<"-", "0", "x", "1", "0">>, <<"+", "7">>, <<"0", "X", "f", "F">>,
      <<"0", "O", "1", "7">>, <<"-", "0", "B", "1", "1">>,
      <<"0", "x", "2">> \o [i \in 1..12 |-> "0"] \o <<"1">>,
      <<"0", "b", "1", "0", "2">>, <<"1", "2", "a", "b", "c">>, <<"a", "b", "c">>,
      <<"0", "x", "Z", "Z">>, <<"0", "x">>, <<"-">>, <<"1", "_", "0">> }

\* texts of one global int c
FamInts ==
    {Text(<<GlobalLine("", T_int, FALSE, <<"c">>, V(c))>>) : c \in IntMenu}

\* a schema row str m after the schema of T has been read: in a later
\* block of the text (after a row of T, or after a schema without rows), in
\* a file D that the text includes after its block of T, and in the text
\* after it has included a file D with a block of T; and a file D that
\* reopens T with a row only
ReopenRow ==
    SchemaLine("", T_str, FALSE, <<"m">>, NoValue)

FamReopen ==
    {Input("content", "", text, <<>>, <<>>, fd) :
       text \in { Blocks(IntKeySchema, <<IntRows[1]>>, 1) \o <<StructLine(T_T), ReopenRow>>,
                  Blocks(IntKeySchema, <<>>, 0) \o <<StructLine(T_T), ReopenRow>>,
                  Blocks(IntKeySchema, <<IntRows[1]>>, 1) \o <<IncludeLine("D")>>,
                  <<IncludeLine("D"), StructLine(T_T), ReopenRow, IntRows[3]>>,
                  <<IncludeLine("D"), StructLine(T_T), IntRows[3]>> },
       fd \in { <<StructLine(T_T), ReopenRow>>,
                <<StructLine(T_T), IntRows[3]>>,
                Blocks(IntKeySchema, <<IntRows[1]>>, 1) }}

\* T with *int id, str n: d and str z, and a row of arguments: 1, p, q;
\* 1, z: q; 1; id: 1, p; 1, p, q, r; 1, z: q, w: r; z: q, id: 1
BindSchema ==
    << SchemaLine("*", T_int, FALSE, <<"i", "d">>, NoValue),
       SchemaLine("", T_str, FALSE, <<"n">>, V(<<"d">>)),
       SchemaLine("", T_str, FALSE, <<"z">>, NoValue) >>

BindRows ==
    { InstLine(<<Pos(V(<<"1">>)), Pos(V(<<"p">>)), Pos(V(<<"q">>))>>),
      InstLine(<<Pos(V(<<"1">>)), Key(<<"z">>, V(<<"q">>))>>),
      InstLine(<<Pos(V(<<"1">>))>>),
      InstLine(<<Key(<<"i", "d">>, V(<<"1">>)), Pos(V(<<"p">>))>>),
      InstLine(<<Pos(V(<<"1">>)), Pos(V(<<"p">>)), Pos(V(<<"q">>)), Pos(V(<<"r">>))>>),
      InstLine(<<Pos(V(<<"1">>)), Key(<<"z">>, V(<<"q">>)), Key(<<"w">>, V(<<"r">>))>>),
      InstLine(<<Key(<<"z">>, V(<<"q">>)), Key(<<"i", "d">>, V(<<"1">>))>>) }

\* the row in the block that declares T, or in a file D that reopens T and
\* that the text includes after its block of T with the row 9, p, q
FamBind ==
    {Text(Blocks(BindSchema, <<row>>, 1)) : row \in BindRows}
    \cup {Input("content", "",
                Blocks(BindSchema,
                       <<InstLine(<<Pos(V(<<"9">>)), Pos(V(<<"p">>)), Pos(V(<<"q">>))>>)>>, 1)
                \o <<IncludeLine("D")>>,
                <<>>, <<>>, <<StructLine(T_T), row>>) : row \in BindRows}

\* Include inputs: the root file A holds at most MaxIncludes lines of its
\* menu (#include B, #include D, #include X where no file X exists, a
\* global); B is empty, includes D, includes A or holds a malformed line;
\* D declares a global or a struct type
IncludeMenu ==
    << IncludeLine("B"), IncludeLine("D"), IncludeLine("X"),
       GlobalLine("", T_str, FALSE, <<"a">>, V(Quoted(DQ, <<"{", "c", "}">>))) >>

FilesB ==
    { <<>>, <<IncludeLine("D")>>, <<IncludeLine("A")>>, <<BadLine>> }

FilesD ==
    { <<GlobalLine("", T_str, FALSE, <<"c">>, V(Quoted(DQ, <<"x">>)))>>,
      Blocks(IntKeySchema, <<IntRows[1]>>, 1) }

FamIncludes ==
    {Input(mode, IF mode = "file" THEN "A" ELSE "", IF mode = "file" THEN <<>> ELSE fa,
           fa, fb, fd) :
       mode \in {"content", "file"}, fa \in Runs(IncludeMenu, MaxIncludes),
       fb \in FilesB, fd \in FilesD}
    \cup {Input("file", "X", <<>>, <<>>, <<>>, <<>>)}

\* "{global.x}", "{global}" and "{x}"
EscapeTemplates ==
    { Quoted(DQ, <<"{">> \o GlobalWord \o <<".", "x", "}">>),
      Quoted(DQ, <<"{">> \o GlobalWord \o <<"}">>),
      Quoted(DQ, <<"{", "x", "}">>) }

\* a global str x: "v" before or after a block of T with *int id and a str
\* attribute n or global, and the row 1, t for a template t; or beside a
\* global str y: t
FamEscape ==
    {Text(IF first THEN <<g>> \o block ELSE block \o <<g>>) :
       first \in BOOLEAN,
       g \in {GlobalLine("", T_str, FALSE, <<"x">>, V(Quoted(DQ, <<"v">>)))},
       block \in UNION {{ Blocks(<< SchemaLine("*", T_int, FALSE, <<"i", "d">>, NoValue),
                                     SchemaLine("", T_str, FALSE, name, NoValue) >>,
                                  <<InstLine(<<Pos(V(<<"1">>)), Pos(V(t))>>)>>, 1),
                           <<GlobalLine("", T_str, FALSE, <<"y">>, V(t))>> } :
                         t \in EscapeTemplates, name \in {<<"n">>, GlobalWord}}}

\* "{..n}" and "{...n}"
ParentTemplates ==
    { Quoted(DQ, <<"{", ".", ".", "n", "}">>),
      Quoted(DQ, <<"{", ".", ".", ".", "n", "}">>) }

\* a template t with leading dots in a global beside the global str n: v,
\* in a field of a row of T (*int id, str n, str m), and in the field w of
\* an inline instance S(t) held by a row of T (*int id, str n, S c)
FamParents ==
    UNION {{ Text(<< GlobalLine("", T_str, FALSE, <<"n">>, V(<<"v">>)),
                     GlobalLine("", T_str, FALSE, <<"y">>, V(t)) >>),
             Text(Blocks(<< SchemaLine("*", T_int, FALSE, <<"i", "d">>, NoValue),
                            SchemaLine("", T_str, FALSE, <<"n">>, NoValue),
                            SchemaLine("", T_str, FALSE, <<"m">>, NoValue) >>,
                         <<InstLine(<<Pos(V(<<"1">>)), Pos(V(<<"v">>)), Pos(V(t))>>)>>, 1)),
             Text(<< StructLine(T_S),
                     SchemaLine("", T_str, FALSE, <<"w">>, NoValue) >>
                  \o Blocks(<< SchemaLine("*", T_int, FALSE, <<"i", "d">>, NoValue),
                               SchemaLine("", T_str, FALSE, <<"n">>, NoValue),
                               SchemaLine("", T_S, FALSE, <<"c">>, NoValue) >>,
                            <<InstLine(<<Pos(V(<<"1">>)), Pos(V(<<"v">>)),
                                         Pos(Inv(T_S, <<Pos(V(t))>>))>>)>>, 1)) } :
           t \in ParentTemplates}

\* the global x that "{x}" names: str[] x: [a, b]; int[] x: [1];
\* bool x: true; int x: 5; str x: v
TargetMenu ==
    { GlobalLine("", T_str, TRUE, <<"x">>, Arr(<<Pos(V(<<"a">>)), Pos(V(<<"b">>))>>)),
      GlobalLine("", T_int, TRUE, <<"x">>, Arr(<<Pos(V(<<"1">>))>>)),
      GlobalLine("", T_bool, FALSE, <<"x">>, V(<<"t", "r", "u", "e">>)),
      GlobalLine("", T_int, FALSE, <<"x">>, V(<<"5">>)),
      GlobalLine("", T_str, FALSE, <<"x">>, V(<<"v">>)) }

\* a str with the template of one name beside what the name stands for: a
\* global x of the menu and str y: "{x}"; a row of T (*int id, S c, str m)
\* with the inline instance S(a) and "{c}"; a row of S with the reference
\* T(17) in t and "{t}" in v
FamTemplatable ==
    {Text(<<g, GlobalLine("", T_str, FALSE, <<"y">>, V(Quoted(DQ, <<"{", "x", "}">>)))>>) :
       g \in TargetMenu}
    \cup
    { Text(<< StructLine(T_S),
              SchemaLine("", T_str, FALSE, <<"w">>, NoValue) >>
           \o Blocks(<< SchemaLine("*", T_int, FALSE, <<"i", "d">>, NoValue),
                        SchemaLine("", T_S, FALSE, <<"c">>, NoValue),
                        SchemaLine("", T_str, FALSE, <<"m">>, NoValue) >>,
                     <<InstLine(<<Pos(V(<<"1">>)), Pos(Inv(T_S, <<Pos(V(<<"a">>))>>)),
                                  Pos(V(Quoted(DQ, <<"{", "c", "}">>)))>>)>>, 1)),
      Text(RefTarget(FALSE)
           \o << StructLine(T_S),
                 SchemaLine("*", T_str, FALSE, <<"k">>, NoValue),
                 SchemaLine("", T_T, FALSE, <<"t">>, NoValue),
                 SchemaLine("", T_str, FALSE, <<"v">>, NoValue),
                 InstLine(<<Pos(V(<<"s">>)), Pos(Inv(T_T, <<Pos(V(<<"1", "7">>))>>)),
                            Pos(V(Quoted(DQ, <<"{", "t", "}">>)))>>) >>) }

\* contents of a str b in double quotes: x, a backslash and n, two
\* backslashes and n, two backslashes and t
EscapedMenu ==
    { Quoted(DQ, <<"x">>),
      Quoted(DQ, <<BS, "n">>),
      Quoted(DQ, <<BS, BS, "n">>),
      Quoted(DQ, <<BS, BS, "t">>) }

\* str a: "{b}" before or after the global str b of a content of the menu
FamEscaped ==
    {Text(IF first THEN <<a, b>> ELSE <<b, a>>) :
       first \in BOOLEAN,
       a \in {GlobalLine("", T_str, FALSE, <<"a">>, V(Quoted(DQ, <<"{", "b", "}">>)))},
       b \in {GlobalLine("", T_str, FALSE, <<"b">>, V(c)) : c \in EscapedMenu}}

\* str t: "{a.b}" after the globals a.b, or a and a.b in either order; and
\* the same three as attributes of T in a row 1, x, y, "{a.b}"
FamDotted ==
    LET t == V(Quoted(DQ, <<"{", "a", ".", "b", "}">>))
        names == { << <<"a", ".", "b">> >>,
                   << <<"a">>, <<"a", ".", "b">> >>,
                   << <<"a", ".", "b">>, <<"a">> >> }
    IN  UNION {{ Text([i \in 1..Len(ns) |->
                         GlobalLine("", T_str, FALSE, ns[i], V(<<"x", ns[i][Len(ns[i])]>>))]
                      \o <<GlobalLine("", T_str, FALSE, <<"t">>, t)>>),
                 Text(Blocks(<<SchemaLine("*", T_int, FALSE, <<"i", "d">>, NoValue)>>
                             \o [i \in 1..Len(ns) |->
                                   SchemaLine("", T_str, FALSE, ns[i], NoValue)]
                             \o <<SchemaLine("", T_str, FALSE, <<"t">>, NoValue)>>,
                             <<InstLine(<<Pos(V(<<"1">>))>>
                                        \o [i \in 1..Len(ns) |->
                                              Pos(V(<<"x", ns[i][Len(ns[i])]>>))]
                                        \o <<Pos(t)>>)>>, 1)) } :
               ns \in names}

\* T with *int id, str n and the default "{n}" of m, as a str or as the one
\* item of a str[], and the rows 1, p and 2, q that leave m out
FamCopies ==
    {Text(Blocks(<< SchemaLine("*", T_int, FALSE, <<"i", "d">>, NoValue),
                    SchemaLine("", T_str, FALSE, <<"n">>, NoValue),
                    m >>,
                 << InstLine(<<Pos(V(<<"1">>)), Pos(V(<<"p">>))>>),
                    InstLine(<<Pos(V(<<"2">>)), Pos(V(<<"q">>))>>) >>, 2)) :
       m \in { SchemaLine("", T_str, FALSE, <<"m">>, V(Quoted(DQ, <<"{", "n", "}">>))),
               SchemaLine("", T_str, TRUE, <<"m">>,
                          Arr(<<Pos(V(Quoted(DQ, <<"{", "n", "}">>)))>>)) }}

\* globals whose value and schema differ in being an array: str x: [a, b];
\* str[] x: q; str[] x: [[a]]; int[] x: [1, 2]; T[] x: T(1); T[] x: [T(1)]
ArrayMenu ==
    { GlobalLine("", T_str, FALSE, <<"x">>, Arr(<<Pos(V(<<"a">>)), Pos(V(<<"b">>))>>)),
      GlobalLine("", T_str, TRUE, <<"x">>, V(<<"q">>)),
      GlobalLine("", T_str, TRUE, <<"x">>, Arr(<<Pos(Arr(<<Pos(V(<<"a">>))>>))>>)),
      GlobalLine("", T_int, TRUE, <<"x">>, Arr(<<Pos(V(<<"1">>)), Pos(V(<<"2">>))>>)),
      GlobalLine("", T_T, TRUE, <<"x">>, Inv(T_T, <<Pos(V(<<"1">>))>>)),
      GlobalLine("", T_T, TRUE, <<"x">>, Arr(<<Pos(Inv(T_T, <<Pos(V(<<"1">>))>>))>>)) }

\* texts of one global of the menu, and blocks of T with *int id and the
\* attribute xs, str[] or str, and a row 1, [a, b] or 1, a
FamArrays ==
    {Text(<<g>>) : g \in ArrayMenu}
    \cup {Text(Blocks(<< SchemaLine("*", T_int, FALSE, <<"i", "d">>, NoValue),
                         SchemaLine("", T_str, arr, <<"x", "s">>, NoValue) >>,
                      <<InstLine(<<Pos(V(<<"1">>)), Pos(v)>>)>>, 1)) :
             arr \in BOOLEAN,
             v \in {V(<<"a">>), Arr(<<Pos(V(<<"a">>)), Pos(V(<<"b">>))>>)}}

\* rows of T (BindSchema) that give an attribute twice: 1, p, q, n: r and
\* 1, z: q, z: r; and a row 1, S(a, b) of T with *int id and S c, where S
\* has the one attribute str w
FamSurplus ==
    {Text(Blocks(BindSchema, <<row>>, 1)) :
       row \in { InstLine(<<Pos(V(<<"1">>)), Pos(V(<<"p">>)), Pos(V(<<"q">>)),
                            Key(<<"n">>, V(<<"r">>))>>),
                 InstLine(<<Pos(V(<<"1">>)), Key(<<"z">>, V(<<"q">>)),
                            Key(<<"z">>, V(<<"r">>))>>) }}
    \cup
    {Text(<< StructLine(T_S),
             SchemaLine("", T_str, FALSE, <<"w">>, NoValue) >>
          \o Blocks(<< SchemaLine("*", T_int, FALSE, <<"i", "d">>, NoValue),
                       SchemaLine("", T_S, FALSE, <<"c">>, NoValue) >>,
                    <<InstLine(<<Pos(V(<<"1">>)),
                                 Pos(Inv(T_S, <<Pos(V(<<"a">>)), Pos(V(<<"b">>))>>))>>)>>, 1))}

\* blocks that reopen T (BindSchema) in another file than the one that
\* declares it, with the row 1, z: q that leaves n out, after a default
\* row n: e or without one: in the file D, included after the block of T;
\* and in the text, after the #include of a file D that declares T
FamShared ==
    UNION {{ Input("content", "",
                   Blocks(BindSchema,
                          <<InstLine(<<Pos(V(<<"9">>)), Pos(V(<<"p">>)), Pos(V(<<"q">>))>>)>>, 1)
                   \o <<IncludeLine("D")>>,
                   <<>>, <<>>, <<StructLine(T_T)>> \o rows),
             Input("content", "",
                   <<IncludeLine("D"), StructLine(T_T)>> \o rows,
                   <<>>, <<>>,
                   Blocks(BindSchema,
                          <<InstLine(<<Pos(V(<<"9">>)), Pos(V(<<"p">>)), Pos(V(<<"q">>))>>)>>, 1)) } :
             rows \in { <<InstLine(<<Pos(V(<<"1">>)), Key(<<"z">>, V(<<"q">>))>>)>>,
                        << DefaultLine(<<"n">>, V(<<"e">>)),
                           InstLine(<<Pos(V(<<"1">>)), Key(<<"z">>, V(<<"q">>))>>) >> }}

\* texts of fragments: at most MaxText characters among a, line feed and
\* carriage return
FragmentTexts ==
    UNION {[1..n -> {"a", EOL, CR}] : n \in 0..MaxText}

\* fragments as the constructor and coerceContentToFragments make them: at
\* row 1 or 2, column 1
Fragments ==
    {SourceFragment(text, row, 1) : text \in FragmentTexts, row \in 1..2}

\* every input of the model
Inputs ==
    FamGlobals \cup FamRows \cup FamRefs \cup FamCollide \cup FamDefaults
    \cup FamIncludes \cup FamSchemas \cup FamComments \cup FamJunk
    \cup FamNullable \cup FamInts \cup FamReopen
    \cup FamBind \cup FamEscape \cup FamParents \cup FamTemplatable
    \cup FamEscaped \cup FamDotted \cup FamCopies \cup FamArrays
    \cup FamSurplus \cup FamShared

\* the inputs of a later call on the same parser
ReparseInputs ==
    { Text(<<>>),
      Text(<<GlobalMenu[3]>>),
      Text(<<GlobalMenu[6]>>),
      Text(<<BadLine>>),
      Input("file", "X", <<>>, <<>>, <<>>, <<>>) }

\* ------------------------------------------------------------------------
\* State
\* ------------------------------------------------------------------------

\* input: the argument of the current call; parseNo: the number of the call
\* stored: TycoParser.context, as the number of the call that created the
\*   context it holds (0 for null)
\* pc: where the call stands: "start", "lex", one of the render phases,
\*   "return", "done" (it returned `result`) or "failed" (it threw `error`)
\* stack: the lexers whose process() is running, innermost last; each is
\*   [path, lines, defaults, mode, struct]: mode tells process ("top") from
\*   loadSchema ("schema") and loadLocalDefaultsAndInstances ("body") of the
\*   struct type `struct`
\* pathCache, globals, structs: the maps of the TycoContext; nodes: its heap
\* cursor: the index of the next item of the running render phase
\* phaseLog: the render phases the call has started, in order
\* failedAt: the pc at which the call threw
\* sliced: a SourceFragment `of` as it was constructed, the fragment `got`
\*   that calls of slice have made of it, and the number `start` of
\*   characters of `of` that they have taken off
VARIABLES input, parseNo, stored, pc, stack, pathCache, globals, structs,
          nodes, cursor, error, result, phaseLog, failedAt, sliced

vars ==
    <<input, parseNo, stored, pc, stack, pathCache, globals, structs,
      nodes, cursor, error, result, phaseLog, failedAt, sliced>>

NoResult ==
    [returned |-> FALSE, tree |-> <<>>]

Returned(tree) ==
    [returned |-> TRUE, tree |-> tree]

\* new TycoLexer(context, lines, path)
NewLexer(path, lines) ==
    [path |-> path, lines |-> lines, defaults |-> <<>>, mode |-> "top", struct |-> <<>>]

Top ==
    stack[Len(stack)]

\* the stack with the running lexer replaced
WithTop(lexer) ==
    [stack EXCEPT ![Len(stack)] = lexer]

\* this.lines.shift() of the running lexer
Shifted ==
    [Top EXCEPT !.lines = Tail(@)]

\* a parser that stores the context as soon as it has made it
StoreContext_Early(at, old, new) ==
    new

\* the assignment this.context = context of parseContent / parseFile, which
\* follows renderContent: `at` is "created" where the call has made its
\* context and "rendered" where renderContent has returned
StoreContext(at, old, new) ==
    IF at = "rendered" THEN new ELSE old

\* raiseParseError, and every other throw of the runtime: nothing catches
\* it, so the call ends there
Raise(err) ==
    /\ pc' = "failed"
    /\ error' = err
    /\ failedAt' = pc
    /\ UNCHANGED <<input, parseNo, stored, stack, pathCache, globals, structs,
                   nodes, cursor, result, phaseLog, sliced>>

\* a step of the lexer that changes the stack, the structs, the globals and
\* the heap
LexStep(newStack, newGlobals, newStructs, newNodes) ==
    /\ stack' = newStack
    /\ globals' = newGlobals
    /\ structs' = newStructs
    /\ nodes' = newNodes
    /\ UNCHANGED <<input, parseNo, stored, pc, pathCache, cursor, error, result,
                   phaseLog, failedAt, sliced>>

Init ==
    /\ input \in Inputs
    /\ parseNo = 1
    /\ stored = 0
    /\ pc = "start"
    /\ stack = <<>>
    /\ pathCache = <<>>
    /\ globals = <<>>
    /\ structs = <<>>
    /\ nodes = <<>>
    /\ cursor = 1
    /\ error = ""
    /\ result = NoResult
    /\ phaseLog = <<>>
    /\ failedAt = ""
    /\ sliced = NoSlice

\* parseContent / parseFile up to the call of process(): a new context and
\* the lexer of the text, or fromPath of the root path
ParseStart ==
    /\ pc = "start"
    /\ IF input.mode = "file" /\ input.root \notin DOMAIN input.files
       THEN Raise("FileAccess")
       ELSE /\ pc' = "lex"
            /\ stack' = <<NewLexer(input.root,
                                   IF input.mode = "file" THEN input.files[input.root]
                                   ELSE input.text)>>
            /\ stored' = StoreContext("created", stored, parseNo)
            /\ UNCHANGED <<input, parseNo, pathCache, globals, structs, nodes,
                           cursor, error, result, phaseLog, failedAt, sliced>>

\* for (const [typeName, attrDefaults] of lexer.defaults.entries()): the
\* defaults of an included lexer go into those of the including one
RECURSIVE MergeDefaults(_, _, _)
MergeDefaults(into, from, i) ==
    IF i > Len(from) THEN [err |-> "", defaults |-> into]
    ELSE IF MapHas(into, from[i].k) THEN [err |-> "DefaultsClash", defaults |-> into]
    ELSE MergeDefaults(MapSet(into, from[i].k, from[i].v), from, i + 1)

\* process() at an #include line whose path the path cache holds: fromPath
\* returns the cached lexer, whose defaults are merged
IncludeCached ==
    /\ pc = "lex" /\ Top.mode = "top" /\ Top.lines # <<>>
    /\ Head(Top.lines).k = "include"
    /\ MapHas(pathCache, Head(Top.lines).path)
    /\ Let(MergeDefaults(Top.defaults, MapGet(pathCache, Head(Top.lines).path), 1),
           LAMBDA m :
             IF m.err # "" THEN Raise(m.err)
             ELSE LexStep(WithTop([Shifted EXCEPT !.defaults = m.defaults]),
                          globals, structs, nodes))

\* process() at an #include line whose path the path cache does not hold:
\* fromPath reads the file and runs process() of a new lexer on it
IncludeFile ==
    /\ pc = "lex" /\ Top.mode = "top" /\ Top.lines # <<>>
    /\ Head(Top.lines).k = "include"
    /\ ~MapHas(pathCache, Head(Top.lines).path)
    /\ LET path == Head(Top.lines).path
       IN  IF path \notin DOMAIN input.files THEN Raise("FileAccess")
           ELSE IF Len(stack) >= MaxStack THEN Raise("RangeError")
           ELSE LexStep(Append(WithTop(Shifted), NewLexer(path, input.files[path])),
                        globals, structs, nodes)

\* process() of an included lexer returns: fromPath puts the lexer into the
\* path cache and the including lexer merges its defaults
IncludeReturn ==
    /\ pc = "lex" /\ Top.mode = "top" /\ Top.lines = <<>>
    /\ Len(stack) > 1
    /\ Let(MergeDefaults(stack[Len(stack) - 1].defaults, Top.defaults, 1), LAMBDA m :
          IF m.err # "" THEN Raise(m.err)
          ELSE /\ stack' = [SubSeq(stack, 1, Len(stack) - 1)
                              EXCEPT ![Len(stack) - 1].defaults = m.defaults]
               /\ pathCache' = MapSet(pathCache, Top.path, Top.defaults)
               /\ UNCHANGED <<input, parseNo, stored, pc, globals, structs, nodes,
                              cursor, error, result, phaseLog, failedAt, sliced>>)

FlagOf(b) ==
    IF b THEN "true" ELSE "false"

\* a value that stripNextAttrAndDelim reads: no string, array or invocation
IsRawToken(v) ==
    v.k = "val" /\ (v.c = <<>> \/ v.c[1] \notin {DQ, SQ})

\* What loadTycoAttr makes of the value v at the end of the line at the head
\* of the running lexer, `tail` following it: [err, val, lines].  A raw token
\* is read by stripNextAttrAndDelim, and what that leaves of the line stays
\* at the head of the lines (an empty rest is dropped, by loadTycoAttr or by
\* the loop that called it); any other value is followed by stripNextDelim,
\* which takes the line to its end.
AfterValue(v, tail, goodDelim) ==
    IF ~IsRawToken(v)
    THEN [err |-> stripComments(tail).err, val |-> v, lines |-> Tail(Top.lines)]
    ELSE Let(stripNextAttrAndDelim(v.c \o tail \o <<EOL>>, goodDelim), LAMBDA r :
           [err |-> r.err, val |-> V(r.text),
            lines |-> IF r.rest = <<>> THEN Tail(Top.lines)
                      ELSE <<LexLine(r.rest)>> \o Tail(Top.lines)])

\* the items of an instance row with the value of the last as v
WithLast(items, v) ==
    IF items = <<>> THEN items ELSE [items EXCEPT ![Len(items)].v = v]

\* a setGlobalAttr that sets the attribute whether the map holds it or not
setGlobalAttr_Overwrite(gs, attrName, attr) ==
    [err |-> "", globals |-> MapSet(gs, attrName, attr)]

\* TycoContext.setGlobalAttr: [err, globals]
setGlobalAttr(gs, attrName, attr) ==
    IF MapHas(gs, attrName) THEN [err |-> "DuplicateGlobal", globals |-> gs]
    ELSE [err |-> "", globals |-> MapSet(gs, attrName, attr)]

\* process() at a line of a global: loadGlobal and setGlobalAttr
LoadGlobal ==
    /\ pc = "lex" /\ Top.mode = "top" /\ Top.lines # <<>>
    /\ Head(Top.lines).k = "global"
    /\ LET line == Head(Top.lines)
       IN  IF line.val = NoValue THEN Raise("MissingValue")
           ELSE Let(AfterValue(line.val, line.tail, {EOL}), LAMBDA rd :
                Let(loadTycoAttr(rd.val, line.name, nodes, structs, Top.defaults),
                    LAMBDA a :
                      IF rd.err # "" THEN Raise(rd.err)
                      ELSE IF a.err # "" THEN Raise(a.err)
                      ELSE Let(applySchemaInfo(a.nodes, a.id,
                                               Kw(line.type, line.name,
                                                  FlagOf(line.opt = "?"), FlagOf(line.arr))),
                               LAMBDA b :
                                 IF b.err # "" THEN Raise(b.err)
                                 ELSE Let(setGlobalAttr(globals, line.name, a.id),
                                          LAMBDA g :
                                            IF g.err # "" THEN Raise(g.err)
                                            ELSE LexStep(WithTop([Top EXCEPT
                                                                    !.lines = rd.lines]),
                                                         g.globals, structs, b.nodes)))))

\* process() at the header line of a struct block: a type the context does
\* not hold yet is added and its schema loaded; in both cases the defaults
\* and instances follow
OpenStruct ==
    /\ pc = "lex" /\ Top.mode = "top" /\ Top.lines # <<>>
    /\ Head(Top.lines).k = "struct"
    /\ LET typeName == Head(Top.lines).name
       IN  IF StructIndex(structs, typeName) # 0
           THEN LexStep(WithTop([Shifted EXCEPT !.mode = "body", !.struct = typeName]),
                        globals, structs, nodes)
           ELSE IF MapHas(Top.defaults, typeName) THEN Raise("DefaultsClash")
           ELSE LexStep(WithTop([Shifted EXCEPT !.mode = "schema", !.struct = typeName,
                                                !.defaults = MapSet(@, typeName, <<>>)]),
                        globals, Append(structs, NewStruct(typeName)), nodes)

\* process() at a blank line or a comment
SkipLine ==
    /\ pc = "lex" /\ Top.mode = "top" /\ Top.lines # <<>>
    /\ Head(Top.lines).k = "blank"
    /\ LexStep(WithTop(Shifted), globals, structs, nodes)

\* process() at a line that matches none of its patterns
Malformatted ==
    /\ pc = "lex" /\ Top.mode = "top" /\ Top.lines # <<>>
    /\ (Head(Top.lines).k = "bad" \/ Indented(Head(Top.lines)))
    /\ Raise("Malformatted")

\* /^\s+\w+\s+\w+/.test(content) of loadSchema
MissingColon(content) ==
    /\ SpaceRun(content, 1) > 0
    /\ WordRun(content, SpaceRun(content, 1) + 1) > 0
    /\ SpaceRun(content, SpaceRun(content, 1)
                          + WordRun(content, SpaceRun(content, 1) + 1) + 1) > 0
    /\ WordRun(content, SpaceRun(content, 1)
                         + WordRun(content, SpaceRun(content, 1) + 1)
                         + SpaceRun(content, SpaceRun(content, 1)
                                             + WordRun(content, SpaceRun(content, 1) + 1)
                                             + 1) + 1) > 0

\* a loadSchema that takes an array as a primary key
KeyOnArray_Allowed(line) ==
    FALSE

\* if (options === '*') { if (isArray) raiseParseError(...) }
KeyOnArray(line) ==
    line.opt = "*" /\ line.arr

\* one round of the loop of loadSchema: the end of the lines or a line that
\* is no schema line ends it, a blank line or a comment (an #include line
\* is one for stripComments) is dropped, a schema line declares an attribute
LoadSchema ==
    /\ pc = "lex" /\ Top.mode = "schema"
    /\ LET si == StructIndex(structs, Top.struct)
           st == structs[si]
           line == Head(Top.lines)
           declared ==
             [st EXCEPT !.attrTypes = MapSet(@, line.name, line.type),
                        !.arrayKeys = IF line.arr THEN @ \cup {line.name} ELSE @,
                        !.primaryKeys = IF line.opt = "*" THEN Append(@, line.name) ELSE @,
                        !.nullableKeys = IF line.opt = "?" THEN @ \cup {line.name} ELSE @]
       IN  IF Top.lines = <<>> THEN LexStep(WithTop([Top EXCEPT !.mode = "body"]),
                                            globals, structs, nodes)
           ELSE IF line.k \in {"blank", "include"}
           THEN LexStep(WithTop(Shifted), globals, structs, nodes)
           ELSE IF line.k = "junk" /\ MissingColon(line.raw) THEN Raise("MissingColon")
           ELSE IF line.k # "schema"
           THEN LexStep(WithTop([Top EXCEPT !.mode = "body"]), globals, structs, nodes)
           ELSE IF MapHas(st.attrTypes, line.name) THEN Raise("DuplicateAttr")
           ELSE IF KeyOnArray(line) THEN Raise("PrimaryKeyOnArray")
           ELSE IF line.val = NoValue
           THEN LexStep(WithTop(Shifted), globals, [structs EXCEPT ![si] = declared], nodes)
           ELSE Let(AfterValue(line.val, line.tail, {EOL}), LAMBDA rd :
                Let(loadTycoAttr(rd.val, line.name, nodes, structs, Top.defaults),
                    LAMBDA a :
                      IF rd.err # "" THEN Raise(rd.err)
                      ELSE IF a.err # "" THEN Raise(a.err)
                      ELSE LexStep(WithTop([Top EXCEPT
                                              !.lines = rd.lines,
                                              !.defaults =
                                                MapSet(@, Top.struct,
                                                       MapSet(MapGet(@, Top.struct),
                                                              line.name, a.id))]),
                                   globals, [structs EXCEPT ![si] = declared], a.nodes)))

\* the loop without the test for a schema row
MatchesSchema_Never(line) ==
    FALSE

\* this.lines[0].text.match(STRUCT_SCHEMA_REGEX) of
\* loadLocalDefaultsAndInstances
MatchesSchema(line) ==
    line.k = "schema"

\* one round of the loop of loadLocalDefaultsAndInstances
LoadLocalDefaultsAndInstances ==
    /\ pc = "lex" /\ Top.mode = "body"
    /\ LET si == StructIndex(structs, Top.struct)
           st == structs[si]
           line == Head(Top.lines)
           d == DefaultsGet(Top.defaults, Top.struct)
       IN  IF Top.lines = <<>> \/ line.k = "include" \/ ~(Indented(line) \/ line.k = "blank")
           THEN LexStep(WithTop([Top EXCEPT !.mode = "top"]), globals, structs, nodes)
           ELSE CASE line.k = "blank" ->
                       LexStep(WithTop(Shifted), globals, structs, nodes)
                  [] line.k = "junk" \/ (line.k = "schema" /\ ~MatchesSchema(line)) ->
                       LexStep(WithTop(Shifted), globals, structs, nodes)
                  [] MatchesSchema(line) -> Raise("SchemaAfterInit")
                  [] line.k = "default" ->
                       IF ~MapHas(st.attrTypes, line.name) THEN Raise("UnknownAttr")
                       ELSE IF ~d.defined THEN Raise("TypeError")
                       ELSE IF line.val = NoValue
                       THEN LexStep(WithTop([Shifted EXCEPT !.defaults =
                                               MapSet(@, Top.struct,
                                                      MapDelete(d.map, line.name))]),
                                    globals, structs, nodes)
                       ELSE Let(AfterValue(line.val, line.tail, {EOL}), LAMBDA rd :
                            Let(loadTycoAttr(rd.val, line.name, nodes, structs,
                                             Top.defaults),
                                LAMBDA a :
                                  IF rd.err # "" THEN Raise(rd.err)
                                  ELSE IF a.err # "" THEN Raise(a.err)
                                  ELSE LexStep(WithTop([Top EXCEPT
                                                          !.lines = rd.lines,
                                                          !.defaults =
                                                            MapSet(@, Top.struct,
                                                                   MapSet(d.map, line.name,
                                                                          a.id))]),
                                               globals, structs, a.nodes)))
                  [] line.k = "inst" ->
                       Let(AfterValue(IF line.items = <<>> THEN NoValue
                                      ELSE line.items[Len(line.items)].v,
                                      line.tail, {",", EOL}),
                           LAMBDA rd :
                       Let(loadArray(WithLast(line.items, rd.val), 1, <<>>, nodes, structs,
                                     Top.defaults),
                           LAMBDA args :
                             IF rd.err # "" THEN Raise(rd.err)
                             ELSE IF args.err # "" THEN Raise(args.err)
                             ELSE Let(createInlineInstance(st, args.ids, d, args.nodes),
                                      LAMBDA inst :
                                        IF inst.err # "" THEN Raise(inst.err)
                                        ELSE LexStep(WithTop([Top EXCEPT
                                                                !.lines = rd.lines]),
                                                     globals,
                                                     [structs EXCEPT ![si].instances =
                                                        Append(@, inst.id)],
                                                     inst.nodes))))

\* the while loop of process() ends in the outermost lexer: parseFile's
\* fromPath puts the lexer into the path cache, and renderContent begins
EndOfInput ==
    /\ pc = "lex" /\ Top.mode = "top" /\ Top.lines = <<>>
    /\ Len(stack) = 1
    /\ pc' = "setParents"
    /\ cursor' = 1
    /\ phaseLog' = <<"setParents">>
    /\ stack' = <<>>
    /\ pathCache' = IF input.mode = "file" THEN MapSet(pathCache, Top.path, Top.defaults)
                    ELSE pathCache
    /\ UNCHANGED <<input, parseNo, stored, globals, structs, nodes, error, result,
                   failedAt, sliced>>

\* ------------------------------------------------------------------------
\* TycoContext.renderContent
\* ------------------------------------------------------------------------

\* a renderContent that renders the templates before the references
PhaseAfter_TemplatesFirst(phase) ==
    CASE phase = "setParents" -> "renderBaseContent"
      [] phase = "renderBaseContent" -> "loadPrimaryKeys"
      [] phase = "loadPrimaryKeys" -> "renderTemplates"
      [] phase = "renderTemplates" -> "renderReferences"
      [] phase = "renderReferences" -> "return"

\* what follows each render phase in renderContent, and the return of the
\* tree after the last
PhaseAfter(phase) ==
    CASE phase = "setParents" -> "renderBaseContent"
      [] phase = "renderBaseContent" -> "loadPrimaryKeys"
      [] phase = "loadPrimaryKeys" -> "renderReferences"
      [] phase = "renderReferences" -> "renderTemplates"
      [] phase = "renderTemplates" -> "return"

\* the instances of all struct types, in the order of structs.values()
RECURSIVE AllInstances(_, _)
AllInstances(sts, i) ==
    IF i > Len(sts) THEN <<>> ELSE sts[i].instances \o AllInstances(sts, i + 1)

\* the objects the phases of the context walk over: the globals, then the
\* instances of every struct type
Roots ==
    MapValues(globals) \o AllInstances(structs, 1)

\* the phase `phase` is over: renderContent calls the next one
EndPhase(phase) ==
    /\ pc' = PhaseAfter(phase)
    /\ cursor' = 1
    /\ phaseLog' = IF PhaseAfter(phase) = "return" THEN phaseLog
                   ELSE Append(phaseLog, PhaseAfter(phase))
    /\ UNCHANGED <<input, parseNo, stored, stack, pathCache, globals, structs, nodes,
                   error, result, failedAt, sliced>>

\* one round of the loops of a phase over the roots: r is the outcome of the
\* phase's method on root number `cursor`
RootStep(r) ==
    IF r.err # "" THEN Raise(r.err)
    ELSE /\ nodes' = r.nodes
         /\ cursor' = cursor + 1
         /\ UNCHANGED <<input, parseNo, stored, pc, stack, pathCache, globals, structs,
                        error, result, phaseLog, failedAt, sliced>>

SetParents ==
    /\ pc = "setParents"
    /\ IF cursor > Len(Roots) THEN EndPhase("setParents")
       ELSE RootStep(Out("", setParent(nodes, Roots[cursor],
                                       IF cursor <= Len(globals) THEN 0 - 1 ELSE 0), 0))

RenderBaseContent ==
    /\ pc = "renderBaseContent"
    /\ IF cursor > Len(Roots) THEN EndPhase("renderBaseContent")
       ELSE RootStep(renderBaseContent(nodes, Roots[cursor]))

\* TycoContext.loadPrimaryKeys: one struct type a round
LoadPrimaryKeys ==
    /\ pc = "loadPrimaryKeys"
    /\ IF cursor > Len(structs) THEN EndPhase("loadPrimaryKeys")
       ELSE Let(loadPrimaryKeys(structs[cursor], nodes, 1,
                                structs[cursor].mappedInstances),
                LAMBDA r :
                  IF r.err # "" THEN Raise(r.err)
                  ELSE /\ structs' = [structs EXCEPT ![cursor].mappedInstances =
                                        r.mappedInstances]
                       /\ cursor' = cursor + 1
                       /\ UNCHANGED <<input, parseNo, stored, pc, stack, pathCache,
                                      globals, nodes, error, result, phaseLog, failedAt, sliced>>)

RenderReferences ==
    /\ pc = "renderReferences"
    /\ IF cursor > Len(Roots) THEN EndPhase("renderReferences")
       ELSE RootStep(renderReferences(nodes, Roots[cursor], structs))

RenderTemplates ==
    /\ pc = "renderTemplates"
    /\ IF cursor > Len(Roots) THEN EndPhase("renderTemplates")
       ELSE RootStep(renderTemplates(nodes, Roots[cursor], globals))

\* renderContent has returned: the parser keeps the context and the call
\* returns the tree of toObject
Return ==
    /\ pc = "return"
    /\ pc' = "done"
    /\ stored' = StoreContext("rendered", stored, parseNo)
    /\ result' = Returned(toObject(globals, structs, nodes))
    /\ UNCHANGED <<input, parseNo, stack, pathCache, globals, structs, nodes, cursor,
                   error, phaseLog, failedAt, sliced>>

\* a later call of parseContent / parseFile on the same parser, after the
\* call before it has returned or thrown
Reparse ==
    /\ pc \in {"done", "failed"}
    /\ parseNo < MaxParses
    /\ input' \in ReparseInputs
    /\ parseNo' = parseNo + 1
    /\ pc' = "start"
    /\ stack' = <<>>
    /\ pathCache' = <<>>
    /\ globals' = <<>>
    /\ structs' = <<>>
    /\ nodes' = <<>>
    /\ cursor' = 1
    /\ error' = ""
    /\ result' = NoResult
    /\ phaseLog' = <<>>
    /\ failedAt' = ""
    /\ UNCHANGED <<stored, sliced>>

Next ==
    \/ ParseStart
    \/ IncludeCached
    \/ IncludeFile
    \/ IncludeReturn
    \/ LoadGlobal
    \/ OpenStruct
    \/ SkipLine
    \/ Malformatted
    \/ LoadSchema
    \/ LoadLocalDefaultsAndInstances
    \/ EndOfInput
    \/ SetParents
    \/ RenderBaseContent
    \/ LoadPrimaryKeys
    \/ RenderReferences
    \/ RenderTemplates
    \/ Return
    \/ Reparse

Spec ==
    Init /\ [][Next]_vars

\* a fragment is constructed and no parse is under way
SliceInit ==
    /\ sliced \in {Unsliced(f) : f \in Fragments}
    /\ input = Text(<<>>)
    /\ parseNo = 1
    /\ stored = 0
    /\ pc = "start"
    /\ stack = <<>>
    /\ pathCache = <<>>
    /\ globals = <<>>
    /\ structs = <<>>
    /\ nodes = <<>>
    /\ cursor = 1
    /\ error = ""
    /\ result = NoResult
    /\ phaseLog = <<>>
    /\ failedAt = ""

\* sliced.got.slice(start)
Slice(start) ==
    /\ sliced' = [of |-> sliced.of,
                  got |-> slice(sliced.got, start),
                  start |-> sliced.start + clamp(start, 0, Len(sliced.got.text))]
    /\ UNCHANGED <<input, parseNo, stored, pc, stack, pathCache, globals, structs,
                   nodes, cursor, error, result, phaseLog, failedAt>>

SliceNext ==
    \E start \in (0 - 1)..(MaxText + 1) : Slice(start)

SliceSpec ==
    SliceInit /\ [][SliceNext]_vars

\* ------------------------------------------------------------------------
\* Properties
\* ------------------------------------------------------------------------

\* the nodes under a node: the fields of an instance and the items of an
\* array, over all levels
RECURSIVE Subtree(_, _)
Subtree(ns, id) ==
    {id} \cup (IF ns[id].kind \in {"inst", "array"}
               THEN UNION {Subtree(ns, ns[id].kids[j]) : j \in 1..Len(ns[id].kids)}
               ELSE {})

\* the nodes of the context: all that hang from a global or an instance
Live ==
    UNION {Subtree(nodes, Roots[i]) : i \in 1..Len(Roots)}

References ==
    {r \in Live : nodes[r].kind = "ref"}

FieldValues ==
    {v \in Live : nodes[v].kind = "value"}

Resolved(r) ==
    nodes[r].rendered # UNRENDERED

Started(phase) ==
    \E i \in 1..Len(phaseLog) : phaseLog[i] = phase

IndexComplete(st) ==
    Len(st.primaryKeys) = 0 \/ Len(st.mappedInstances) = Len(st.instances)

PhaseOrder ==
    <<"setParents", "renderBaseContent", "loadPrimaryKeys", "renderReferences",
      "renderTemplates">>

\* C1: in every call the render phases start in the order set_parents,
\* render_base, load_primary_keys, render_references, render_templates; the
\* template phase has not started while a reference of the context is
\* unresolved, no reference is resolved while the primary-key index of some
\* struct is incomplete, and no index holds an entry while some field of an
\* instance is not base-rendered.
C1_PhaseOrder ==
    /\ Len(phaseLog) <= Len(PhaseOrder)
    /\ phaseLog = SubSeq(PhaseOrder, 1, Len(phaseLog))
    /\ Started("renderTemplates") => \A r \in References : Resolved(r)
    /\ (\E r \in References : Resolved(r)) =>
          \A i \in 1..Len(structs) : IndexComplete(structs[i])
    /\ (\E i \in 1..Len(structs) : structs[i].mappedInstances # <<>>) =>
          \A v \in FieldValues : nodes[v].rendered # UNRENDERED

\* a call has gone through all five phases with a reference to resolve and a
\* template that reads through it
C1_Witness ==
    /\ pc = "done"
    /\ phaseLog = PhaseOrder
    /\ References # {}
    /\ \E v \in FieldValues :
          /\ nodes[v].typeName = T_str
          /\ nodes[v].content = Quoted(DQ, <<"{", "t", ".", "z", "}">>)
          /\ nodes[v].rendered.s \in {<<"p">>, <<"q">>}

\* the struct a reference names, and the rendered tuple of primary-key
\* values of an instance of a struct
StructOf(typeName) ==
    structs[StructIndex(structs, typeName)]

KeyTuple(st, inst) ==
    [j \in 1..Len(st.primaryKeys) |->
        nodes[FieldOf(nodes, inst, st.primaryKeys[j])].rendered]

\* the reference r holds, for every primary key, an argument bound to the
\* key whose rendered value is that of the instance it is resolved to
ResolvedByKey(r) ==
    LET st == StructOf(nodes[r].typeName)
        keys == KeyTuple(st, nodes[r].rendered.n)
    IN  /\ Len(nodes[r].kids) = Len(st.primaryKeys)
        /\ \A j \in 1..Len(st.primaryKeys) :
              \E a \in 1..Len(nodes[r].kids) :
                 /\ nodes[nodes[r].kids[a]].attrName = st.primaryKeys[j]
                 /\ nodes[nodes[r].kids[a]].rendered = keys[j]

\* C2: every reference T(args) to a declared struct type, whatever the
\* number of its arguments, is either resolved to the instance of T whose
\* primary-key tuple equals the rendered arguments, or the call fails with
\* UnknownReference.
C2_ReferenceClosure ==
    /\ \A r \in References : Resolved(r) => ResolvedByKey(r)
    /\ (pc = "failed" /\ failedAt = "renderReferences" /\ error # "BadTypeName") =>
          error = "UnknownReference"

\* C3: load_primary_keys fails with DuplicatePrimaryKey exactly when two
\* instances of one struct type have the same tuple of base-rendered
\* primary-key values: a complete index means all tuples of the struct
\* differ, and the failure means two tuples of some struct are equal.
C3_PrimaryKeyTuples ==
    /\ \A i \in 1..Len(structs) :
          (Len(structs[i].primaryKeys) > 0 /\ structs[i].instances # <<>>
           /\ IndexComplete(structs[i])) =>
             \A a, b \in 1..Len(structs[i].instances) :
                a # b => KeyTuple(structs[i], structs[i].instances[a])
                           # KeyTuple(structs[i], structs[i].instances[b])
    /\ error = "DuplicatePrimaryKey" =>
          \E i \in 1..Len(structs) : \E a, b \in 1..Len(structs[i].instances) :
             /\ a # b
             /\ KeyTuple(structs[i], structs[i].instances[a])
                  = KeyTuple(structs[i], structs[i].instances[b])

\* the instance rows of struct type typeName in a text without #include
\* lines, in the order of the text: `cur` is the type of the block a line
\* stands in
RECURSIVE RowsOf(_, _, _, _)
RowsOf(lines, i, cur, typeName) ==
    IF i > Len(lines) THEN <<>>
    ELSE CASE lines[i].k = "struct" -> RowsOf(lines, i + 1, lines[i].name, typeName)
           [] lines[i].k = "inst" ->
                (IF cur = typeName THEN <<lines[i]>> ELSE <<>>)
                \o RowsOf(lines, i + 1, cur, typeName)
           [] lines[i].k \in {"blank", "default", "schema", "junk"} ->
                RowsOf(lines, i + 1, cur, typeName)
           [] OTHER -> RowsOf(lines, i + 1, <<>>, typeName)

NoIncludes ==
    /\ input.mode = "content"
    /\ \A i \in 1..Len(input.text) : input.text[i].k # "include"

\* the content that the arguments `items` give to the k-th of the declared
\* attributes `names`: that of the last argument with the name, or in the
\* k-th place without a name; <<>> when there is none
ProvidedContent(items, names, k) ==
    LET for == {i \in 1..Len(items) :
                  \/ items[i].an = names[k]
                  \/ items[i].an = NullName /\ i = k}
    IN  IF for = {} THEN <<>>
        ELSE items[CHOOSE i \in for : \A j \in for : j <= i].v.c

\* what the argument of a row for the first attribute `name`, a raw token,
\* gives for an attribute of type `type`
FirstOf(row, type, name) ==
    LET r == RenderBaseValue([MkNode("value", ProvidedContent(row.items, <<name>>, 1),
                                     type, <<>>, <<>>)
                                EXCEPT !.attrName = <<"x">>, !.isNullable = "false",
                                       !.isArray = "false"]).rendered
    IN  Json(r.t, r.s, r.n, <<>>, <<>>)

\* C4: for every struct type T with at least one primary key the returned
\* tree holds under T a list with one entry for each instance row of T, in
\* the order of the rows, also when they stand in several blocks of T; a
\* struct type without primary keys gets no entry of its own.
C4_StructLists ==
    (pc = "done" /\ NoIncludes) =>
       \A i \in 1..Len(structs) :
          LET st == structs[i]
              rows == RowsOf(input.text, 1, <<>>, st.typeName)
          IN  IF Len(st.primaryKeys) > 0
              THEN /\ MapHas(result.tree, st.typeName)
                   /\ MapGet(result.tree, st.typeName).t = "list"
                   /\ Len(MapGet(result.tree, st.typeName).kids) = Len(rows)
                   /\ \A k \in 1..Len(rows) :
                         MapGet(result.tree, st.typeName).kids[k].kids[1]
                           = FirstOf(rows[k], st.attrTypes[1].v, st.attrTypes[1].k)
              ELSE ~MapHas(result.tree, st.typeName) \/ MapHas(globals, st.typeName)

\* a tree with the two rows of a keyed struct type whose block was reopened
C4_Witness ==
    /\ pc = "done" /\ NoIncludes
    /\ Len(structs) = 1
    /\ Len(structs[1].primaryKeys) > 0
    /\ Len(SelectSeq(input.text, LAMBDA l : l.k = "struct")) = 2
    /\ Len(RowsOf(input.text, 1, <<>>, structs[1].typeName)) = 2
    /\ Len(MapGet(result.tree, structs[1].typeName).kids) = 2
    /\ input.text[Len(input.text)].k = "inst"

\* C5: for every declared global g the returned tree has exactly one entry
\* keyed g, and its value is the rendered value of g, whatever struct types
\* the input declares.
C5_GlobalEntries ==
    pc = "done" =>
       \A i \in 1..Len(globals) :
          /\ Cardinality({j \in 1..Len(result.tree) : result.tree[j].k = globals[i].k}) = 1
          /\ MapGet(result.tree, globals[i].k) = toJSON(nodes, globals[i].v)

\* the {path} occurrences of a string from index i on
RECURSIVE TemplatePaths(_, _)
TemplatePaths(s, i) ==
    IF i > Len(s) THEN {}
    ELSE LET k == PathRun(s, i + 1)
         IN  IF s[i] = "{" /\ k > 0 /\ i + k + 1 <= Len(s) /\ s[i + k + 1] = "}"
             THEN {SubSeq(s, i + 1, i + k)} \cup TemplatePaths(s, i + k + 2)
             ELSE TemplatePaths(s, i + 1)

\* the node a template path of value n names, 0 when it names none
TemplateTarget(n, path) ==
    LET hops == IF StartsWith(path, <<".", ".">>)
                THEN ParentHops(nodes, nodes[n].parent, Tail(path))
                ELSE [err |-> "", obj |-> nodes[n].parent, path |-> path]
        parts == SplitDots(hops.path, <<>>)
        walk == WalkPath(nodes, globals, hops.obj, parts, parts[1])
    IN  IF hops.err # "" \/ hops.path = <<>> THEN 0
        ELSE IF walk.err # "" \/ walk.obj < 0 THEN 0
        ELSE walk.obj

\* the attribute graph: a str value that is no literal points to the nodes
\* its templates name
Targets(n) ==
    IF nodes[n].kind = "value" /\ nodes[n].typeName = T_str
       /\ ~StartsWith(nodes[n].content, <<SQ>>)
    THEN {TemplateTarget(n, p) : p \in TemplatePaths(nodes[n].content, 1)} \ {0}
    ELSE {}

RECURSIVE Closure(_, _)
Closure(set, k) ==
    IF k = 0 THEN set
    ELSE Closure(set \cup UNION {Targets(x) : x \in set}, k - 1)

Acyclic ==
    \A n \in Live : n \notin Closure(Targets(n), Len(nodes))

\* C6: given an acyclic attribute graph, the result of the one
\* render_templates pass of a call is a fixpoint: running the pass again
\* changes no rendered string, whatever the order of the declarations.
C6_TemplateFixpoint ==
    (pc = "done" /\ Acyclic) =>
       LET again == RenderTemplatesAll(nodes, Roots, 1, globals)
       IN  again.err = "" /\ again.nodes = nodes

\* the running lexer stands at an #include line
AtInclude ==
    /\ pc = "lex" /\ stack # <<>>
    /\ Top.mode = "top" /\ Top.lines # <<>>
    /\ Head(Top.lines).k = "include"

\* the running lexer stands at an #include line for a file that this call
\* has included before
AtRepeatedInclude ==
    AtInclude /\ MapHas(pathCache, Head(Top.lines).path)

\* C7: including a file that the call has included before succeeds and
\* changes nothing: no global, no struct type, no value and no default is
\* added or lost, so the output is that of the parse with the one include,
\* also when the included file declares struct types.
C7_IncludeIdempotent ==
    [][AtRepeatedInclude =>
         /\ pc' = "lex" /\ error' = ""
         /\ UNCHANGED <<globals, structs, nodes, pathCache>>
         /\ stack' = WithTop(Shifted)]_vars

\* C8: an include chain that comes back to a file being lexed ends: when the
\* include of a file on the lexer stack is reached that file is in the path
\* cache, and the recursion of fromPath never exhausts the call stack.
C8_IncludeCycleSafe ==
    /\ (AtInclude /\ \E i \in 1..Len(stack) :
                        /\ stack[i].path # ""
                        /\ stack[i].path = Head(Top.lines).path)
          => MapHas(pathCache, Head(Top.lines).path)
    /\ error # "RangeError"

\* the text between the delimiters of a literal string, less the one newline
\* that follows an opening '''
LiteralInterior(content) ==
    IF StartsWith(content, <<SQ, SQ, SQ>>)
    THEN LET inner == SubSeq(content, 4, Len(content) - 3)
         IN  IF inner # <<>> /\ inner[1] = EOL THEN Tail(inner) ELSE inner
    ELSE SubSeq(content, 2, Len(content) - 1)

IsLiteral(v) ==
    /\ nodes[v].kind = "value"
    /\ nodes[v].typeName = T_str
    /\ StartsWith(nodes[v].content, <<SQ>>)

\* C9: a str value written between ' or ''' is rendered as the text between
\* its delimiters, one newline after an opening ''' trimmed, from the base
\* rendering to the output: no {path} and no backslash escape in it is
\* replaced, by render_templates or by anything else.
C9_LiteralStrings ==
    /\ \A v \in FieldValues :
          (IsLiteral(v) /\ nodes[v].rendered # UNRENDERED) =>
             nodes[v].rendered = Rv("str", LiteralInterior(nodes[v].content), 0)
    /\ pc = "done" =>
          \A i \in 1..Len(globals) :
             (IsLiteral(globals[i].v) /\ StructIndex(structs, globals[i].k) = 0) =>
                MapGet(result.tree, globals[i].k)
                  = Json("str", LiteralInterior(nodes[globals[i].v].content), 0, <<>>, <<>>)

\* a tree with a literal string that holds a template and an escape
C9_Witness ==
    /\ pc = "done"
    /\ \E i \in 1..Len(globals) :
          /\ IsLiteral(globals[i].v)
          /\ TemplatePaths(nodes[globals[i].v].content, 1) # {}
          /\ \E j \in 1..Len(nodes[globals[i].v].content) :
                nodes[globals[i].v].content[j] = BS
          /\ MapGet(result.tree, globals[i].k).s
               = LiteralInterior(nodes[globals[i].v].content)
          /\ \E k \in 1..Len(globals) :
                nodes[globals[i].v].content
                  = Quoted(SQ, <<"{">> \o globals[k].k \o <<"}", BS, "n">>)

\* C10: a call that fails at any step of lexing or rendering ends there with
\* the error: it returns no tree and goes on to no further step, and the
\* context the parser has stored is the one of the last call that returned.
C10_NoLocalRecovery ==
    /\ (error # "") = (pc = "failed")
    /\ pc = "failed" => (result = NoResult /\ stored # parseNo /\ failedAt # "")
    /\ result.returned => (pc = "done" /\ error = "" /\ stored = parseNo)
    /\ pc \notin {"done", "failed"} => stored < parseNo

\* a later call has failed in a render phase and the stored context is still
\* that of the call before it
C10_Witness ==
    /\ pc = "failed"
    /\ parseNo = 2 /\ stored = 1
    /\ failedAt \in {"renderBaseContent", "renderTemplates"}
    /\ result = NoResult

\* the running lexer stands at the line of a global
AtGlobal ==
    /\ pc = "lex" /\ stack # <<>>
    /\ Top.mode = "top" /\ Top.lines # <<>>
    /\ Head(Top.lines).k = "global"

\* the value of the global line the lexer stands at can be read and given
\* its schema
GlobalValueLoads ==
    /\ Head(Top.lines).val # NoValue
    /\ Let(loadTycoAttr(Head(Top.lines).val, Head(Top.lines).name, nodes, structs,
                        Top.defaults),
           LAMBDA a :
             /\ a.err = ""
             /\ applySchemaInfo(a.nodes, a.id,
                                Kw(Head(Top.lines).type, Head(Top.lines).name,
                                   FlagOf(Head(Top.lines).opt = "?"),
                                   FlagOf(Head(Top.lines).arr))).err = "")

\* C11: the declaration of a global whose name the globals map holds fails
\* with DuplicateGlobal; in every step of a call the map keeps the entries it
\* has, each with its value, and never holds one name twice.
C11_DuplicateGlobal ==
    [][/\ (AtGlobal /\ MapHas(globals, Head(Top.lines).name) /\ GlobalValueLoads)
            => (pc' = "failed" /\ error' = "DuplicateGlobal")
       /\ pc' # "start" =>
            /\ Len(globals') >= Len(globals)
            /\ SubSeq(globals', 1, Len(globals)) = globals
            /\ \A i, j \in 1..Len(globals') :
                  globals'[i].k = globals'[j].k => i = j]_vars

\* a second declaration of a global of one text has failed
C11_Witness ==
    /\ pc = "failed" /\ error = "DuplicateGlobal"
    /\ input.mode = "content" /\ NoIncludes
    /\ MapHas(globals, Head(Top.lines).name)
    /\ Len(globals) = 2

\* the running lexer reads the schema of a struct type and stands at a
\* schema row
AtSchemaRow ==
    /\ pc = "lex" /\ stack # <<>>
    /\ Top.mode = "schema" /\ Top.lines # <<>>
    /\ Head(Top.lines).k = "schema"

\* no attribute of a struct type of ss is a primary key and an array
NoArrayKey(ss) ==
    \A i \in 1..Len(ss) :
       \A k \in 1..Len(ss[i].primaryKeys) : ss[i].primaryKeys[k] \notin ss[i].arrayKeys

\* C12: a schema row with the modifier * and the marker [] fails with
\* PrimaryKeyOnArray (a row that declares an attribute again fails for that
\* first), and while a call has not failed no attribute of a struct type is
\* both a primary key and an array.
C12_PrimaryKeyOnArray ==
    [][/\ (/\ AtSchemaRow
           /\ Head(Top.lines).opt = "*" /\ Head(Top.lines).arr
           /\ ~MapHas(structs[StructIndex(structs, Top.struct)].attrTypes,
                      Head(Top.lines).name))
            => (pc' = "failed" /\ error' = "PrimaryKeyOnArray")
       /\ pc' # "failed" => NoArrayKey(structs')]_vars

\* the row *int[] ks has failed after a schema row that was read
C12_Witness ==
    /\ pc = "failed" /\ error = "PrimaryKeyOnArray"
    /\ Head(Top.lines).opt = "*" /\ Head(Top.lines).arr
    /\ Len(structs) = 1 /\ Len(structs[1].attrTypes) = 1

\* the running lexer stands at a row that ends in a raw token and a comment
AtCommentedRow ==
    /\ pc = "lex" /\ stack # <<>> /\ Top.lines # <<>>
    /\ Head(Top.lines).tail # <<>>
    /\ \/ Top.mode = "top" /\ Head(Top.lines).k = "global"
       \/ Top.mode = "schema" /\ Head(Top.lines).k = "schema"
       \/ Top.mode = "body" /\ Head(Top.lines).k \in {"default", "inst"}
    /\ IsRawToken(IF Head(Top.lines).k = "inst"
                  THEN Head(Top.lines).items[Len(Head(Top.lines).items)].v
                  ELSE Head(Top.lines).val)

\* C13: a comment after the raw token that ends a global, a schema default,
\* a default row or an instance row has no part in the parse: once the row is
\* read the lexer goes on with the lines that follow it (nothing of the
\* comment is left to be lexed but, at most, a blank), so the result is that
\* of the input without the comment.
C13_CommentsIgnored ==
    [][AtCommentedRow =>
         /\ pc' = "lex"
         /\ \/ stack'[Len(stack')].lines = Tail(Top.lines)
            \/ /\ Tail(stack'[Len(stack')].lines) = Tail(Top.lines)
               /\ \/ Head(stack'[Len(stack')].lines).k = "blank"
                  \/ /\ Head(stack'[Len(stack')].lines).k = "include"
                     /\ stack'[Len(stack')].mode = "schema"]_vars

\* the running lexer stands at a line that is not blank and matches none of
\* the patterns of the lexer
AtUnrecognized ==
    /\ pc = "lex" /\ stack # <<>> /\ Top.lines # <<>>
    /\ Head(Top.lines).k \in {"bad", "junk"}

\* C14: no line is dropped unread: a step of the lexer at a line that is not
\* blank and belongs to no construct fails with Malformatted (in loadSchema,
\* with the missing-colon error) or leaves the line where it is for the loop
\* that called it, at top level and inside a struct block alike.
C14_NoLineIgnored ==
    [][AtUnrecognized =>
         \/ pc' = "failed" /\ error' \in {"Malformatted", "MissingColon"}
         \/ pc' = "lex" /\ stack'[Len(stack')].lines = Top.lines]_vars

\* a rendered value whose phase of templates has not run yet, or that is
\* no string: its rendered value is that of renderBaseContent
BaseRendered(v) ==
    /\ nodes[v].rendered # UNRENDERED
    /\ nodes[v].typeName # T_str \/ pc \in {"loadPrimaryKeys", "renderReferences"}

\* C15: a rendered value is null exactly when its own schema is nullable
\* and its content is the word null without quotes, whether the attribute
\* is a scalar or an array; under a schema that is not nullable a str with
\* the content null is the string "null"; a nullable value with another
\* content is rendered as the same content is without the nullable mark
C15_NullableNull ==
    \A v \in FieldValues :
      LET nd == nodes[v]
      IN  /\ nd.rendered # UNRENDERED =>
               ((nd.rendered.t = "null")
                  = (nd.isNullable = "true" /\ nd.content = NullWord))
          /\ (nd.rendered # UNRENDERED /\ nd.isNullable = "false"
              /\ nd.typeName = T_str /\ nd.content = NullWord) =>
               nd.rendered = Rv("str", NullWord, 0)
          /\ (BaseRendered(v) /\ nd.isNullable = "true" /\ nd.content # NullWord) =>
               nd.rendered = RenderBaseValue([nd EXCEPT !.isNullable = "false"]).rendered

\* a returned parse with a nullable attribute of content null rendered as
\* null, an array attribute among them or a string "null" beside it
C15_Witness ==
    /\ pc = "done" /\ result.returned
    /\ \E v \in FieldValues :
         /\ nodes[v].isNullable = "true" /\ nodes[v].content = NullWord
         /\ nodes[v].rendered = Rv("null", <<>>, 0)
         /\ \/ nodes[v].isArray = "true"
            \/ \E w \in FieldValues :
                 /\ nodes[w].isNullable = "false" /\ nodes[w].content = NullWord
                 /\ nodes[w].rendered = Rv("str", NullWord, 0)

\* the integer that the words of the int rule give to a content: sign,
\* base by prefix, and the value of the digits, exact; "none" when the
\* digits are no digits of the base
ClaimedInt(content) ==
    LET signed == content # <<>> /\ Head(content) \in {"-", "+"}
        sign == IF content # <<>> /\ Head(content) = "-" THEN 0 - 1 ELSE 1
        rest == IF signed THEN Tail(content) ELSE content
        prefix(cs) == Len(rest) >= 2 /\ rest[1] = "0" /\ rest[2] \in cs
        base == IF prefix({"x", "X"}) THEN 16
                ELSE IF prefix({"o", "O"}) THEN 8
                ELSE IF prefix({"b", "B"}) THEN 2 ELSE 10
        digits == IF base = 10 THEN rest ELSE SubSeq(rest, 3, Len(rest))
        n == Len(digits)
    IN  IF n = 0 \/ \E i \in 1..n : DigitValue(digits[i]) >= base
        THEN Rv("none", <<>>, 0)
        ELSE IF base # 10 /\ Len(DigitBits(digits, n, base)) > IntBits
        THEN Rv("bigint", DigitBits(digits, n, base), sign)
        ELSE Rv("int", <<>>, sign * DigitsValue(digits, n, base))

\* C16: a rendered int is the sign times the value of its digits in the
\* base that its prefix names: 16 for 0x and 0X, 8 for 0o and 0O, 2 for 0b
\* and 0B, else 10
C16_IntRendering ==
    \A v \in FieldValues :
      (nodes[v].typeName = T_int /\ nodes[v].rendered # UNRENDERED
       /\ ~RendersNull(nodes[v])) =>
        nodes[v].rendered = ClaimedInt(nodes[v].content)

\* a schema row is the next line of a struct block whose schema has been
\* read: after a row of the block, or in a block that reopens the type
AtSchemaRowInBody ==
    /\ pc = "lex" /\ stack # <<>>
    /\ Top.mode = "body" /\ Top.lines # <<>>
    /\ Head(Top.lines).k = "schema"

\* attribute names in order, types, and the primary, nullable and array sets
SchemaPart(st) ==
    <<st.typeName, st.attrTypes, st.primaryKeys, st.nullableKeys, st.arrayKeys>>

\* loadSchema is reading the schema rows of the struct type
ReadingSchema(typeName) ==
    pc = "lex" /\ stack # <<>> /\ Top.mode = "schema" /\ Top.struct = typeName

\* C17: within a call the schema of a struct type does not change once its
\* schema rows have been read, and a schema row after a default or instance
\* row of the block, or in a later block or an included file that reopens
\* the type, fails with SchemaAfterInit.
C17_SchemaFrozen ==
    [][/\ AtSchemaRowInBody => (pc' = "failed" /\ error' = "SchemaAfterInit")
       /\ parseNo' = parseNo =>
            \A i \in 1..Len(structs) :
               ~ReadingSchema(structs[i].typeName) =>
                 /\ i <= Len(structs')
                 /\ SchemaPart(structs'[i]) = SchemaPart(structs[i])]_vars

\* a schema row has failed with SchemaAfterInit in a file that the text
\* includes, after an instance of the type was created
C17_Witness ==
    /\ pc = "failed" /\ error = "SchemaAfterInit"
    /\ Len(stack) > 1
    /\ \E i \in 1..Len(structs) :
         structs[i].typeName = Top.struct /\ structs[i].instances # <<>>

\* an instance row of plain values, without a comment, is the next line of
\* a struct block
AtPlainRow ==
    /\ pc = "lex" /\ stack # <<>>
    /\ Top.mode = "body" /\ Top.lines # <<>>
    /\ Head(Top.lines).k = "inst" /\ Head(Top.lines).tail = <<>>
    /\ \A i \in 1..Len(Head(Top.lines).items) : Head(Top.lines).items[i].v.k = "val"

\* C18: an instance row with a positional argument after a keyed one fails
\* with PositionalAfterKeyword; a row fails for its arguments only with
\* that, with MissingAttr or with an error of the schema of an attribute;
\* and the instance a row creates has exactly the declared attributes, in
\* the order of the schema, each with the content of the argument given
\* for it by place or by name, else with that of its current default.
C18_CreateInstance ==
    [][AtPlainRow =>
         LET items == Head(Top.lines).items
             si == StructIndex(structs, Top.struct)
             names == MapKeys(structs[si].attrTypes)
             d == DefaultsGet(Top.defaults, Top.struct)
             made == nodes'[structs'[si].instances[Len(structs'[si].instances)]]
         IN  /\ (\E i, j \in 1..Len(items) :
                    j < i /\ items[j].an # NullName /\ items[i].an = NullName)
                  => (pc' = "failed" /\ error' = "PositionalAfterKeyword")
             /\ pc' = "failed" =>
                  error' \in {"PositionalAfterKeyword", "MissingAttr", "ExpectedArray",
                              "UnexpectedArray", "TypeMismatch"}
             /\ pc' # "failed" =>
                  /\ Len(structs'[si].instances) = Len(structs[si].instances) + 1
                  /\ made.kind = "inst" /\ made.keys = names
                  /\ \A k \in 1..Len(names) :
                       nodes'[made.kids[k]].content =
                         IF ProvidedContent(items, names, k) # <<>>
                         THEN ProvidedContent(items, names, k)
                         ELSE nodes[MapGet(d.map, names[k])].content]_vars

\* the last index up to k of a character of `breaks` in text, 0 when there
\* is none
LastOf(text, k, breaks) ==
    IF \E i \in 1..k : text[i] \in breaks
    THEN CHOOSE i \in 1..k : text[i] \in breaks /\ \A j \in (i + 1)..k : text[j] \notin breaks
    ELSE 0

\* the position k characters into a fragment when the characters of
\* `breaks` set the column back to 1 and every other character adds 1 to
\* it, and a line feed adds 1 to the row
PositionAfter(fragment, k, breaks) ==
    [row |-> fragment.row + Cardinality({i \in 1..k : fragment.text[i] = EOL}),
     column |-> IF LastOf(fragment.text, k, breaks) = 0 THEN fragment.column + k
                ELSE 1 + k - LastOf(fragment.text, k, breaks)]

\* what calls of slice have made of a fragment has the text of the fragment
\* from the offset they add up to, and its position is the fragment's moved
\* on over the characters taken off, the characters of `breaks` setting the
\* column back to 1; and slice(a).slice(b) is slice(a + b) within the text
SliceLaw(breaks) ==
    /\ sliced.got.text = SubSeq(sliced.of.text, sliced.start + 1, Len(sliced.of.text))
    /\ [row |-> sliced.got.row, column |-> sliced.got.column]
         = PositionAfter(sliced.of, sliced.start, breaks)
    /\ sliced.got = slice(sliced.of, sliced.start)
    /\ \A a, b \in 0..Len(sliced.got.text) :
          a + b <= Len(sliced.got.text) =>
            slice(slice(sliced.got, a), b) = slice(sliced.got, a + b)

\* C19 as amended: slice(k) gives the text from offset k at the position
\* moved on over the k characters, where a line feed adds 1 to the row and
\* sets the column to 1, a carriage return sets the column to 1 and leaves
\* the row, and any other character adds 1 to the column; and
\* slice(a).slice(b) is slice(a + b) for offsets within the text.
C19_SliceAmended ==
    SliceLaw({EOL, CR})

\* C19 as claimed: every character other than a line feed adds 1 to the
\* column
C19_SliceClaimed ==
    SliceLaw({EOL})

\* slices have taken off a carriage return and a character after it, and
\* text is left
C19_Witness ==
    /\ sliced.start >= 2 /\ sliced.got.text # <<>>
    /\ \E i \in 1..(sliced.start - 1) : sliced.of.text[i] = CR
    /\ sliced.got.column > 1

\* the template {global.<name>} in double quotes
EscapeOfName(name) ==
    Quoted(DQ, <<"{">> \o GlobalWord \o <<".">> \o name \o <<"}">>)

\* the fields of instances that are a str with the content "{global.x}"
\* for a global x of type str or int, in an instance where the lookup of
\* `global` fails and of `global.x` as well; with each the global it names
EscapeFields ==
    {<<v, g>> \in FieldValues \X (1..Len(globals)) :
       /\ nodes[v].typeName = T_str /\ ~nodes[v].isLiteralStr
       /\ nodes[v].content = EscapeOfName(globals[g].k)
       /\ nodes[v].parent > 0 /\ nodes[nodes[v].parent].kind = "inst"
       /\ FieldOf(nodes, nodes[v].parent, GlobalWord) = 0
       /\ FieldOf(nodes, nodes[v].parent, GlobalWord \o <<".">> \o globals[g].k) = 0
       /\ nodes[globals[g].v].kind = "value"
       /\ nodes[globals[g].v].typeName \in {T_str, T_int}}

\* a value whose content holds a template
HasTemplate(v) ==
    \E i \in 1..Len(nodes[v].content) : nodes[v].content[i] = "{"

\* C20: a field of an instance with the template {global.x}, where the
\* instance has no attribute `global`, is rendered as the rendered value of
\* the global x: the phase of templates does not fail over it, and after the
\* phase the field holds the text of the global.
C20_GlobalEscape ==
    /\ (pc = "failed" /\ failedAt = "renderTemplates" /\ error = "UnknownAttr") =>
         \E v \in FieldValues :
            HasTemplate(v) /\ \A g \in 1..Len(globals) : <<v, g>> \notin EscapeFields
    /\ pc \in {"return", "done"} =>
         \A e \in EscapeFields :
            nodes[e[1]].rendered
              = Rv("str", RenderedString(nodes, globals[e[2]].v, FALSE).s, 0)

\* the values whose content is a template with leading dots, "{..n}" or
\* "{...n}"
DotValues ==
    {v \in FieldValues :
       /\ nodes[v].typeName = T_str /\ ~nodes[v].isLiteralStr
       /\ nodes[v].content \in ParentTemplates}

\* the parent hops of such a template: one for each dot after the first
HopsOf(v) ==
    Len(nodes[v].content) - 6

\* the object `hops` steps up the parent chain of obj, 0 when a step starts
\* from an object without a parent: a top-level instance or the globals map
RECURSIVE Ancestor(_, _)
Ancestor(obj, hops) ==
    IF hops = 0 THEN obj
    ELSE IF obj = 0 - 1 \/ nodes[obj].parent = 0 THEN 0
    ELSE Ancestor(nodes[obj].parent, hops - 1)

\* the chain above the value v is too short for the hops of its template
Overflows(v) ==
    Ancestor(nodes[v].parent, HopsOf(v)) = 0

\* C21: a template with leading dots makes one parent hop for each dot after
\* the first and resolves the rest of the path from the object reached; when
\* a hop starts from an object without a parent the parse fails with
\* ParentOverflow, in a field of a top-level instance and in a global alike.
C21_ParentTraversal ==
    /\ ( /\ pc = "failed" /\ failedAt = "renderTemplates"
         /\ DotValues # {}
         /\ \A v \in FieldValues : HasTemplate(v) => (v \in DotValues /\ Overflows(v)) )
       => error = "ParentOverflow"
    /\ pc \in {"return", "done"} =>
         \A v \in DotValues :
            /\ ~Overflows(v)
            /\ LET got == tryGetAttr(nodes, globals,
                                     Ancestor(nodes[v].parent, HopsOf(v)), <<"n">>)
               IN  /\ got.id # 0
                   /\ nodes[v].rendered = Rv("str", RenderedString(nodes, got.id, FALSE).s, 0)

\* the name of a content "{name}" in double quotes, <<>> for another content
NameOfTemplate(content) ==
    IF /\ Len(content) >= 5
       /\ SubSeq(content, 1, 2) = <<DQ, "{">>
       /\ SubSeq(content, Len(content) - 1, Len(content)) = <<"}", DQ>>
       /\ \A i \in 3..(Len(content) - 2) : content[i] \in WordChars
    THEN SubSeq(content, 3, Len(content) - 2)
    ELSE <<>>

\* what the path of one name resolves to from the parent of the value v:
\* the attribute of that name, else for {global} the globals map (0 - 1),
\* else 0
TargetOf(v) ==
    LET name == NameOfTemplate(nodes[v].content)
        got == tryGetAttr(nodes, globals, nodes[v].parent, name)
    IN  IF got.err = "" /\ got.id # 0 THEN got.id
        ELSE IF name = GlobalWord THEN 0 - 1
        ELSE 0

\* the values that are one template of one name that resolves
NameValues ==
    {v \in FieldValues :
       /\ nodes[v].typeName = T_str /\ ~nodes[v].isLiteralStr
       /\ NameOfTemplate(nodes[v].content) # <<>>
       /\ TargetOf(v) # 0}

\* a Primitive of type str or int
Templatable(target) ==
    /\ target > 0
    /\ nodes[target].kind = "value"
    /\ nodes[target].typeName \in {T_str, T_int}

\* C22: text is substituted only for a path that resolves to a Primitive of
\* type str or int; a path that resolves to an Array (of any element type),
\* an Instance, a Reference, the globals map or a value of another type
\* makes the parse fail with UntemplatableType.
C22_Templatable ==
    /\ pc \in {"return", "done"} => \A v \in NameValues : Templatable(TargetOf(v))
    /\ ( /\ pc = "failed" /\ failedAt = "renderTemplates"
         /\ NameValues # {}
         /\ \A v \in FieldValues : HasTemplate(v) =>
               (v \in NameValues /\ ~Templatable(TargetOf(v))) )
       => error = "UntemplatableType"

\* the text of the value v after renderBaseContent and one pass of escapes
EscapedOnce(v) ==
    Rv("str", subEscapeSequences(RenderBaseValue(nodes[v]).rendered.s), 0)

\* the pairs <<a, b>>: a is "{b}" and b a non-literal str without templates
Quotations ==
    {<<a, TargetOf(a)>> : a \in {v \in NameValues :
        /\ TargetOf(v) > 0
        /\ nodes[TargetOf(v)].kind = "value"
        /\ nodes[TargetOf(v)].typeName = T_str
        /\ ~nodes[TargetOf(v)].isLiteralStr
        /\ ~HasTemplate(TargetOf(v))}}

\* C23: escape sequences are applied once to the text of a non-literal str,
\* and the text substituted for a template is not escape-processed again:
\* in a returned parse a: "{b}" holds what b holds, the once-escaped text of
\* b, whether b is declared before or after a.
C23_EscapeOnce ==
    pc \in {"return", "done"} =>
      \A q \in Quotations :
         /\ nodes[q[2]].rendered = EscapedOnce(q[2])
         /\ nodes[q[1]].rendered = nodes[q[2]].rendered

\* the path of a content "{path}" in double quotes, its characters word
\* characters and dots; <<>> for another content
PathOfTemplate(content) ==
    IF /\ Len(content) >= 5
       /\ SubSeq(content, 1, 2) = <<DQ, "{">>
       /\ SubSeq(content, Len(content) - 1, Len(content)) = <<"}", DQ>>
       /\ \A i \in 3..(Len(content) - 2) : content[i] \in (WordChars \cup {"."})
    THEN SubSeq(content, 3, Len(content) - 2)
    ELSE <<>>

\* some grouping of the segments into attribute names leads from obj,
\* object by object, to a node
RECURSIVE Resolvable(_, _)
Resolvable(obj, segments) ==
    \E k \in 1..Len(segments) :
       LET got == tryGetAttr(nodes, globals, obj, JoinWith(SubSeq(segments, 1, k), <<".">>))
       IN  /\ got.err = "" /\ got.id # 0
           /\ (k = Len(segments) \/ Resolvable(got.id, SubSeq(segments, k + 1, Len(segments))))

\* the values that are one template of a dotted path: no leading dot, and
\* global is not the first segment
PathValues ==
    {v \in FieldValues :
       /\ nodes[v].typeName = T_str /\ ~nodes[v].isLiteralStr
       /\ PathOfTemplate(nodes[v].content) # <<>>
       /\ Head(PathOfTemplate(nodes[v].content)) # "."
       /\ Head(SplitDots(PathOfTemplate(nodes[v].content), <<>>)) # GlobalWord}

SegmentsOf(v) ==
    SplitDots(PathOfTemplate(nodes[v].content), <<>>)

\* C24: a dotted path resolves whenever some grouping of its segments into
\* attribute names leads to a node, and fails with UnknownAttr only when no
\* grouping does: {a.b} reaches the attribute a.b also when the object has
\* an attribute a.
C24_PathGroupings ==
    /\ pc \in {"return", "done"} =>
         \A v \in PathValues : Resolvable(nodes[v].parent, SegmentsOf(v))
    /\ ( /\ pc = "failed" /\ failedAt = "renderTemplates" /\ error = "UnknownAttr"
         /\ PathValues # {}
         /\ \A v \in FieldValues : HasTemplate(v) => v \in PathValues )
       => \E v \in PathValues : ~Resolvable(nodes[v].parent, SegmentsOf(v))

\* a default row without a comment is the next line of a struct block, in
\* a lexer that holds the defaults of the type
AtDefaultRow ==
    /\ pc = "lex" /\ stack # <<>>
    /\ Top.mode = "body" /\ Top.lines # <<>>
    /\ Head(Top.lines).k = "default" /\ Head(Top.lines).tail = <<>>
    /\ Head(Top.lines).val.k \in {"val", "none"}
    /\ DefaultsGet(Top.defaults, Top.struct).defined

\* the defaults of the running lexer for the type of its block, before and
\* after the step
DefaultsNow ==
    DefaultsGet(Top.defaults, Top.struct).map

DefaultsNext ==
    DefaultsGet(stack'[Len(stack')].defaults, Top.struct).map

\* the step leaves alone every node made before it, the instances of the
\* earlier rows among them
KeepsNodes ==
    /\ Len(nodes') >= Len(nodes)
    /\ SubSeq(nodes', 1, Len(nodes)) = nodes

\* C25: in the lexer that holds the defaults of the type, a default row for
\* a declared attribute a sets the default of a (an empty value removes it)
\* and leaves the other defaults and the instances of the rows before it
\* as they are; a default row for an undeclared
\* attribute fails with UnknownAttr; an instance row takes for an attribute
\* it omits a copy of the default current at the row, and fails with
\* MissingAttr when there is none.
C25_LocalDefaults ==
    [][ /\ AtDefaultRow =>
            LET line == Head(Top.lines)
                st == structs[StructIndex(structs, Top.struct)]
            IN  IF ~MapHas(st.attrTypes, line.name)
                THEN pc' = "failed" /\ error' = "UnknownAttr"
                ELSE /\ pc' # "failed"
                     /\ structs' = structs /\ KeepsNodes
                     /\ \A a \in {st.attrTypes[i].k : i \in 1..Len(st.attrTypes)} \ {line.name} :
                          /\ MapHas(DefaultsNext, a) = MapHas(DefaultsNow, a)
                          /\ MapHas(DefaultsNow, a) =>
                               MapGet(DefaultsNext, a) = MapGet(DefaultsNow, a)
                     /\ IF line.val = NoValue THEN ~MapHas(DefaultsNext, line.name)
                        ELSE /\ MapHas(DefaultsNext, line.name)
                             /\ nodes'[MapGet(DefaultsNext, line.name)].content = line.val.c
        /\ (AtPlainRow /\ DefaultsGet(Top.defaults, Top.struct).defined) =>
            LET items == Head(Top.lines).items
                si == StructIndex(structs, Top.struct)
                names == MapKeys(structs[si].attrTypes)
                omitted == {k \in 1..Len(names) : ProvidedContent(items, names, k) = <<>>}
                made == nodes'[structs'[si].instances[Len(structs'[si].instances)]]
            IN  /\ KeepsNodes /\ DefaultsNext = DefaultsNow
                /\ ( /\ \E k \in omitted : ~MapHas(DefaultsNow, names[k])
                     /\ \A i \in 1..Len(items) : items[i].an = NullName )
                   => (pc' = "failed" /\ error' = "MissingAttr")
                /\ pc' # "failed" =>
                     \A k \in omitted :
                        /\ MapHas(DefaultsNow, names[k])
                        /\ nodes'[made.kids[k]].content
                             = nodes[MapGet(DefaultsNow, names[k])].content ]_vars

\* the rows 1 and 2 of a returned parse give no n, and took d, the default
\* of the schema, and e, the default of the row between them
C25_Witness ==
    /\ pc = "done" /\ input \in FamDefaults
    /\ LET st == structs[StructIndex(structs, T_T)]
       IN  /\ Len(st.instances) >= 2
           /\ nodes[FieldOf(nodes, st.instances[1], <<"n">>)].content = <<"d">>
           /\ nodes[FieldOf(nodes, st.instances[2], <<"n">>)].content = <<"e">>

\* the nodes that the defaults maps hold: those of the lexers on the stack
\* and of the lexers in the path cache
DefaultNodes ==
    LET maps == {stack[i].defaults : i \in 1..Len(stack)}
                \cup {pathCache[i].v : i \in 1..Len(pathCache)}
    IN  UNION {UNION {{d[i].v[j].v : j \in 1..Len(d[i].v)} : i \in 1..Len(d)} : d \in maps}

\* the places (node, index) that hold the node id as a field, an item or an
\* argument
Owners(id) ==
    {o \in (1..Len(nodes)) \X (1..Len(nodes)) :
       /\ o[2] <= Len(nodes[o[1]].kids)
       /\ nodes[o[1]].kids[o[2]] = id}

\* the values under the field f of an instance that set_parents gives the
\* instance as parent: f itself and, for an array, its items
RECURSIVE Parented(_)
Parented(f) ==
    {f} \cup (IF nodes[f].kind = "array"
              THEN UNION {Parented(nodes[f].kids[j]) : j \in 1..Len(nodes[f].kids)}
              ELSE {})

\* the instances of the context, inline instances included
LiveInstances ==
    {p \in Live : nodes[p].kind = "inst"}

\* C26: a node is held in at most one place, and a node of a defaults map
\* in none: an instance that takes a default holds a copy of its own.  Once
\* the parents are set every field of an instance, and every item of a
\* field that is an array, has that instance as parent, and in a returned
\* parse a field "{name}" holds the text of the field `name` of its own
\* instance.
C26_DefaultCopies ==
    /\ \A id \in 1..Len(nodes) :
          /\ Cardinality(Owners(id)) <= 1
          /\ id \in DefaultNodes => Owners(id) = {}
    /\ Started("renderBaseContent") =>
         \A p \in LiveInstances : \A k \in 1..Len(nodes[p].kids) :
            \A f \in Parented(nodes[p].kids[k]) : nodes[f].parent = p
    /\ pc \in {"return", "done"} =>
         \A p \in LiveInstances : \A k \in 1..Len(nodes[p].kids) :
            \A f \in Parented(nodes[p].kids[k]) \cap NameValues :
               LET own == FieldOf(nodes, p, NameOfTemplate(nodes[f].content))
               IN  (own # 0 /\ Templatable(own) /\ ~HasTemplate(own)) =>
                     nodes[f].rendered = Rv("str", RenderedString(nodes, own, FALSE).s, 0)

\* a returned parse with two instances whose fields m are two nodes with
\* the content "{n}" of the default, rendered as p and as q
C26_Witness ==
    /\ pc = "done" /\ input \in FamCopies
    /\ \E p, q \in LiveInstances :
          LET mp == FieldOf(nodes, p, <<"m">>)
              mq == FieldOf(nodes, q, <<"m">>)
          IN  /\ mp # mq
              /\ nodes[mp].kind = "value" /\ nodes[mq].kind = "value"
              /\ nodes[mp].content = nodes[mq].content
              /\ nodes[mp].rendered.s = <<"p">>
              /\ nodes[mq].rendered.s = <<"q">>

\* the heap as applySchemaInfo leaves it: the items of an array that has
\* its attribute name carry that name and the flags false; the items of an
\* array that has its type carry that type, and such an array is marked as
\* an array; a value is marked as an array only when it is a nullable null,
\* an instance or reference never
SchemaApplied(ns) ==
    \A a \in 1..Len(ns) :
       /\ ns[a].kind = "array" =>
            /\ ns[a].attrName # NullName =>
                 \A j \in 1..Len(ns[a].kids) :
                    /\ ns[ns[a].kids[j]].attrName = ns[a].attrName
                    /\ ns[ns[a].kids[j]].isArray = "false"
                    /\ ns[ns[a].kids[j]].isNullable = "false"
            /\ ns[a].typeName # NullName =>
                 /\ ns[a].isArray = "true"
                 /\ \A j \in 1..Len(ns[a].kids) :
                       ns[ns[a].kids[j]].typeName = ns[a].typeName
       /\ (ns[a].kind = "value" /\ ns[a].isArray = "true") =>
            (ns[a].isNullable = "true" /\ ns[a].content = NullWord)
       /\ ns[a].kind \in {"inst", "ref"} => ns[a].isArray # "true"

\* what a schema with the flags nullable and array makes of the value v
\* that is given for it: "ExpectedArray", "fails" or "passes"
ArrayVerdict(v, nullable, array) ==
    IF v.k = "arr" THEN (IF array THEN "passes" ELSE "fails")
    ELSE IF ~array \/ (v.k = "val" /\ nullable /\ v.c = NullWord) THEN "passes"
    ELSE "ExpectedArray"

\* an instance row without a comment that gives every attribute of the
\* type by place is the next line of a struct block
AtFullRow ==
    /\ pc = "lex" /\ stack # <<>>
    /\ Top.mode = "body" /\ Top.lines # <<>>
    /\ Head(Top.lines).k = "inst" /\ Head(Top.lines).tail = <<>>
    /\ \A i \in 1..Len(Head(Top.lines).items) : Head(Top.lines).items[i].an = NullName
    /\ Len(Head(Top.lines).items)
         = Len(structs[StructIndex(structs, Top.struct)].attrTypes)

\* C27: the schema of a global or of an attribute is applied to the value
\* given for it.  An array hands its type and attribute name to every item,
\* with the flags array and nullable false; an array schema on what is no
\* array fails with ExpectedArray, except on the value null under a
\* nullable schema, which does not fail so; a schema without [] on an array
\* fails.
C27_ArraySchema ==
    [][ /\ SchemaApplied(nodes')
        /\ (AtGlobal /\ Head(Top.lines).tail = <<>> /\ Head(Top.lines).val # NoValue) =>
             LET line == Head(Top.lines)
                 verdict == ArrayVerdict(line.val, line.opt = "?", line.arr)
             IN  /\ verdict = "ExpectedArray" =>
                      (pc' = "failed" /\ error' = "ExpectedArray")
                 /\ verdict = "fails" => pc' = "failed"
                 /\ verdict = "passes" => error' # "ExpectedArray"
        /\ AtFullRow =>
             LET items == Head(Top.lines).items
                 st == structs[StructIndex(structs, Top.struct)]
                 verdict(k) == ArrayVerdict(items[k].v,
                                            st.attrTypes[k].k \in st.nullableKeys,
                                            st.attrTypes[k].k \in st.arrayKeys)
             IN  /\ (\E k \in 1..Len(items) : verdict(k) # "passes") => pc' = "failed"
                 /\ (\A k \in 1..Len(items) : verdict(k) \in {"passes", "ExpectedArray"}) =>
                      (error' = "ExpectedArray"
                         <=> \E k \in 1..Len(items) : verdict(k) = "ExpectedArray") ]_vars

\* a global that is an array with two items holds its schema, and so do the
\* items
C27_Witness ==
    /\ pc = "done"
    /\ \E g \in 1..Len(globals) :
          LET a == nodes[globals[g].v]
          IN  /\ a.kind = "array" /\ a.isArray = "true" /\ Len(a.kids) = 2
              /\ \A j \in 1..2 : /\ nodes[a.kids[j]].typeName = a.typeName
                                 /\ nodes[a.kids[j]].isArray = "false"

\* the name the i-th of the arguments `items` is bound to under the
\* declared attributes `names`: its own name, else the i-th declared name,
\* Undef beyond the declared attributes
BoundName(items, names, i) ==
    IF items[i].an # NullName THEN items[i].an
    ELSE IF i <= Len(names) THEN names[i]
    ELSE Undef

\* some argument is bound to no declared attribute, or two arguments are
\* bound to one
Surplus(items, names) ==
    \/ \E i \in 1..Len(items) :
          \A k \in 1..Len(names) : BoundName(items, names, i) # names[k]
    \/ \E i, j \in 1..Len(items) :
          i # j /\ BoundName(items, names, i) = BoundName(items, names, j)

\* an instance row without a comment is the next line of a struct block in
\* a lexer that holds the defaults of the type: its arguments are raw
\* tokens or inline invocations of raw tokens
AtArgsRow ==
    /\ pc = "lex" /\ stack # <<>>
    /\ Top.mode = "body" /\ Top.lines # <<>>
    /\ Head(Top.lines).k = "inst" /\ Head(Top.lines).tail = <<>>
    /\ DefaultsGet(Top.defaults, Top.struct).defined
    /\ \A i \in 1..Len(Head(Top.lines).items) :
          LET v == Head(Top.lines).items[i].v
          IN  \/ v.k = "val"
              \/ v.k = "inv" /\ \A j \in 1..Len(v.items) : v.items[j].v.k = "val"

\* the inline invocations among the arguments `items` that make an inline
\* instance: those of a struct type without primary keys
InlineArgs(items) ==
    {i \in 1..Len(items) :
       /\ items[i].v.k = "inv"
       /\ StructIndex(structs, items[i].v.type) # 0
       /\ structs[StructIndex(structs, items[i].v.type)].primaryKeys = <<>>}

\* C28: an instance row, or an inline invocation in it, with a positional
\* argument beyond the declared attributes, with a keyed argument of an
\* undeclared name or with two arguments for one attribute makes the parse
\* fail: no argument is dropped or overwritten.
C28_ArgsBound ==
    [][AtArgsRow =>
         LET items == Head(Top.lines).items
             st == structs[StructIndex(structs, Top.struct)]
         IN  ( \/ Surplus(items, MapKeys(st.attrTypes))
               \/ \E i \in InlineArgs(items) :
                     Surplus(items[i].v.items,
                             MapKeys(structs[StructIndex(structs,
                                                         items[i].v.type)].attrTypes)) )
             => pc' = "failed"]_vars

\* the defaults that the lexers of the context hold for a type: those of
\* the lexers on the stack and in the path cache
HeldDefaults(typeName) ==
    {MapGet(d, typeName) :
       d \in {m \in {stack[i].defaults : i \in 1..Len(stack)}
                    \cup {pathCache[i].v : i \in 1..Len(pathCache)} :
                MapHas(m, typeName)}}

\* a default row or an instance row of raw tokens, without a comment, is
\* the next line of a block of a type whose defaults a lexer of the context
\* holds
AtRowOfDeclared ==
    /\ pc = "lex" /\ stack # <<>>
    /\ Top.mode = "body" /\ Top.lines # <<>>
    /\ Head(Top.lines).tail = <<>>
    /\ \/ /\ Head(Top.lines).k = "default"
          /\ Head(Top.lines).val.k \in {"val", "none"}
       \/ /\ Head(Top.lines).k = "inst"
          /\ \A i \in 1..Len(Head(Top.lines).items) : Head(Top.lines).items[i].v.k = "val"
    /\ HeldDefaults(Top.struct) # {}

\* C29: in a block that reopens a type in another file than the declaring
\* one, as in the declaring file, a row that leaves out an attribute with a
\* default takes a copy of the default, and a default row for a declared
\* attribute sets the default: neither fails for the file it stands in (a
\* row fails only for the arguments it gives).
C29_SharedDefaults ==
    [][AtRowOfDeclared =>
         LET line == Head(Top.lines)
             si == StructIndex(structs, Top.struct)
             names == MapKeys(structs[si].attrTypes)
             held == HeldDefaults(Top.struct)
             made == nodes'[structs'[si].instances[Len(structs'[si].instances)]]
         IN  IF line.k = "default"
             THEN MapHas(structs[si].attrTypes, line.name) =>
                    /\ pc' # "failed"
                    /\ line.val # NoValue =>
                         /\ MapHas(DefaultsNext, line.name)
                         /\ nodes'[MapGet(DefaultsNext, line.name)].content = line.val.c
             ELSE ( /\ ~Surplus(line.items, names)
                    /\ \A k \in 1..Len(names) :
                          ProvidedContent(line.items, names, k) = <<>> =>
                            \E d \in held : MapHas(d, names[k]) )
                  => /\ pc' = "failed" =>
                          error' \in {"PositionalAfterKeyword", "ExpectedArray",
                                      "UnexpectedArray", "TypeMismatch"}
                     /\ pc' # "failed" =>
                          \A k \in 1..Len(names) :
                             ProvidedContent(line.items, names, k) = <<>> =>
                               \E d \in held :
                                  /\ MapHas(d, names[k])
                                  /\ nodes'[made.kids[k]].content
                                       = nodes[MapGet(d, names[k])].content]_vars

\* the content of an int is, after the optional sign and base prefix, a
\* non-empty run of digits of the base
ValidInt(content) ==
    ClaimedInt(content).t # "none"

\* the int values of the context that are not a nullable null
IntValues ==
    {v \in FieldValues : nodes[v].typeName = T_int /\ ~RendersNull(nodes[v])}

\* C30: an int whose content is no run of digits of its base is never
\* rendered: the phase of base content fails over it with InvalidNumber, so
\* no rendered int comes from a prefix of its content or is not a number,
\* and no parse returns with such an int.
C30_InvalidNumber ==
    /\ \A v \in IntValues :
          nodes[v].rendered # UNRENDERED =>
            (ValidInt(nodes[v].content) /\ nodes[v].rendered.t # "nan")
    /\ (pc = "failed" /\ failedAt = "renderBaseContent" /\ error = "InvalidNumber") =>
          \E v \in IntValues : ~ValidInt(nodes[v].content)
    /\ pc \in {"return", "done"} => \A v \in IntValues : ValidInt(nodes[v].content)

====
